---------------------------- MODULE Spec2Model ----------------------------
(***************************************************************************)
(* LiveLyricist: the lyric line splitter (src/services/splitter.ts).       *)
(*                                                                         *)
(* A string is a sequence of characters, a character a one-character       *)
(* string; a character outside ASCII is written "U+hhhh", and NUL is       *)
(* U+0000, the character the splitter uses to mask a period.  The          *)
(* recursion of processSegment and trySplitAndReflow is run on an explicit *)
(* call stack, one action per step of the code.                            *)
(*                                                                         *)
(* The thresholds limit*1.5, limit*1.3, limit*0.4 and limit*1.4 are        *)
(* compared as exact fractions (2*n <= 3*limit, ...); the code's doubles   *)
(* agree with the fractions for every limit below 45.                      *)
(*                                                                         *)
(* Around the splitter, the stores (src/store/useStore.ts) and the views   *)
(* that use them: the Library, the Editor and the PlaylistEditor           *)
(* (src/components/Editor.tsx) and the Performance view                    *)
(* (src/components/Performance.tsx).  A handler is one action, taken with  *)
(* the render and the effects that follow it; a view that is not shown is  *)
(* unmounted and its state is the state it mounts with.                    *)
(***************************************************************************)
EXTENDS Integers, Sequences, FiniteSets, TLC

VARIABLES
    raw,          \* splitLyrics' argument raw
    targetLen,    \* splitLyrics' argument targetLen
    pc,           \* "idle", "start", "split" (the paragraph loop) or "done"
    paragraphs,   \* the paragraphs the loop of splitLyrics has not visited yet
    lines,        \* the accumulator `lines`
    origin,       \* for every element of lines, the push that produced it
    stack,        \* the calls of processSegment / trySplitAndReflow in progress
    result,       \* the value splitLyrics returned
    kept,         \* the arguments and the return value of the caller's first call,
                  \* kept by the caller when it calls again
    currentLineIndex,  \* useRuntimeStore: currentLineIndex
    called,       \* the last call of the runtime store: its name, its argument
                  \* and currentLineIndex before it
    performanceQueue,  \* useRuntimeStore: performanceQueue
    songs,        \* useLibraryStore: songs
    view,         \* the route shown: "library", "editor", "playlist", "perform"
    id,           \* the route's parameter id (a song in the editor and in
                  \* performance)
    returnPath,   \* location.state.returnPath of the Performance view
    selectedSongId,  \* PlaylistEditor: selectedSongId
    localSong,    \* Editor: localSong
    activeLineIdx,   \* Editor: activeLineIdx
    isFirstRender,   \* Editor: isFirstRender.current
    timeout,      \* Editor: the song the pending autosave timer will write
    edits,        \* the number of changes typed into the Editor's fields
    lastEdit,     \* the local song as the latest change in the Editor left it
    keyed         \* the latest event on the lines of the Editor

\* the splitter and its caller
splitter == <<raw, targetLen, pc, paragraphs, lines, origin, stack, result, kept>>

\* the stores and the views of the application
\* the Editor component
editor == <<localSong, activeLineIdx, isFirstRender, timeout, edits, lastEdit, keyed>>

\* the route and the state of the other views
route == <<view, id, returnPath, selectedSongId>>

\* all but the runtime store's currentLineIndex
views == <<performanceQueue, songs, route, editor>>

app == <<currentLineIndex, called, views>>

vars == <<splitter, app>>

-----------------------------------------------------------------------------
(* Characters *)

NUL == "U+0000"

UpperLetters ==
    <<"A","B","C","D","E","F","G","H","I","J","K","L","M",
      "N","O","P","Q","R","S","T","U","V","W","X","Y","Z">>

LowerLetters ==
    <<"a","b","c","d","e","f","g","h","i","j","k","l","m",
      "n","o","p","q","r","s","t","u","v","w","x","y","z">>

Digits == {"0","1","2","3","4","5","6","7","8","9"}

Range(s) == {s[i] : i \in 1..Len(s)}

IsUpper(c) == c \in Range(UpperLetters)

ToLower(c) ==
    IF IsUpper(c)
    THEN LowerLetters[CHOOSE i \in 1..26 : UpperLetters[i] = c]
    ELSE c

\* \w of a regular expression without the u flag
IsWordChar(c) ==
    c \in Range(UpperLetters) \cup Range(LowerLetters) \cup Digits \cup {"_"}

\* \s, and what String.prototype.trim strips (of the characters modelled)
IsSpace(c) == c \in {" ", "\t", "\n", "\r"}

\* [.!?\uFF01\uFF1F]
SentencePunct == {".", "!", "?", "U+FF01", "U+FF1F"}

\* [,\uFF0C;\uFF1B:\uFF1A]
ClausePunct == {",", "U+FF0C", ";", "U+FF1B", ":", "U+FF1A"}

\* [-\u2013\u2014]
Hyphens == {"-", "U+2013", "U+2014"}

-----------------------------------------------------------------------------
(* String primitives *)

\* a trim that strips nothing
TrimNothing(s) == s

RECURSIVE TrimLeft(_)
TrimLeft(s) ==
    IF s # <<>> /\ IsSpace(Head(s)) THEN TrimLeft(Tail(s)) ELSE s

RECURSIVE TrimRight(_)
TrimRight(s) ==
    IF s # <<>> /\ IsSpace(s[Len(s)])
    THEN TrimRight(SubSeq(s, 1, Len(s) - 1))
    ELSE s

Trim(s) == TrimRight(TrimLeft(s))

\* a substring that starts one character late
SubstringFromNext(s, from) == SubSeq(s, from + 2, Len(s))

\* text.substring(from) and text.substring(0, to), 0-based as in the code
SubstringFrom(s, from) ==
    SubSeq(s, (IF from > Len(s) THEN Len(s) ELSE from) + 1, Len(s))

SubstringTo(s, to) == SubSeq(s, 1, IF to > Len(s) THEN Len(s) ELSE to)

\* text.indexOf(c, from): the 0-based index of the first c at or after from
IndexOf(s, c, from) ==
    LET hits == {i \in 0..(Len(s) - 1) : i >= from /\ s[i + 1] = c}
    IN  IF hits = {} THEN -1
        ELSE CHOOSE i \in hits : \A j \in hits : i <= j

\* text.lastIndexOf(c, from): the 0-based index of the last c at or before from
LastIndexOf(s, c, from) ==
    LET hits == {i \in 0..(Len(s) - 1) : i <= from /\ s[i + 1] = c}
    IN  IF hits = {} THEN -1
        ELSE CHOOSE i \in hits : \A j \in hits : i >= j

RECURSIVE Concat(_)
Concat(ss) == IF ss = <<>> THEN <<>> ELSE Head(ss) \o Concat(Tail(ss))

-----------------------------------------------------------------------------
(* splitLyrics: masking the periods of abbreviations and initials *)

\* the alternatives of the first regular expression, in its order
Abbreviations ==
    << <<"M","r">>, <<"M","r","s">>, <<"M","s">>, <<"D","r">>, <<"S","r">>,
       <<"J","r">>, <<"S","t">>, <<"V","s">>, <<"P","r","o","f">>,
       <<"G","e","n">>, <<"R","e","p">>, <<"S","e","n">> >>

\* \b at 1-based position i: between s[i-1] and s[i]
WordBoundary(s, i) ==
    LET before == i > 1 /\ i - 1 <= Len(s) /\ IsWordChar(s[i - 1])
        after  == i >= 1 /\ i <= Len(s) /\ IsWordChar(s[i])
    IN  before # after

\* w in the letter case of the code, followed by a period, at position i of s
AbbreviationAtExactCase(s, i, w) ==
    /\ i + Len(w) <= Len(s)
    /\ \A k \in 1..Len(w) : s[i + k - 1] = w[k]
    /\ s[i + Len(w)] = "."

\* w, ignoring case, followed by a period, at position i of s
AbbreviationAt(s, i, w) ==
    /\ i + Len(w) <= Len(s)
    /\ \A k \in 1..Len(w) : ToLower(s[i + k - 1]) = ToLower(w[k])
    /\ s[i + Len(w)] = "."

\* the length of the abbreviation /\b(Mr|Mrs|...)\./gi matches at i, 0 if none
AbbreviationLen(s, i) ==
    LET hits == {a \in 1..Len(Abbreviations) : AbbreviationAt(s, i, Abbreviations[a])}
    IN  IF ~WordBoundary(s, i) \/ hits = {} THEN 0
        ELSE Len(Abbreviations[CHOOSE a \in hits : \A b \in hits : a <= b])

\* s from position i on with the first expression replaced: the text up to the
\* leftmost match at or after i, its abbreviation, U+0000, and the rest likewise
RECURSIVE MaskAbbreviationsFrom(_, _)
MaskAbbreviationsFrom(s, i) ==
    LET hits == {k \in i..Len(s) : AbbreviationLen(s, k) > 0}
    IN  IF hits = {} THEN SubSeq(s, i, Len(s))
        ELSE LET k == CHOOSE h \in hits : \A j \in hits : h <= j
                 n == AbbreviationLen(s, k)
             IN  SubSeq(s, i, k + n - 1) \o <<NUL>> \o MaskAbbreviationsFrom(s, k + n + 1)

\* /\b([A-Z])\./g at position i
InitialAt(s, i) ==
    /\ i + 1 <= Len(s)
    /\ WordBoundary(s, i)
    /\ IsUpper(s[i])
    /\ s[i + 1] = "."

RECURSIVE MaskInitialsFrom(_, _)
MaskInitialsFrom(s, i) ==
    LET hits == {k \in i..Len(s) : InitialAt(s, k)}
    IN  IF hits = {} THEN SubSeq(s, i, Len(s))
        ELSE LET k == CHOOSE h \in hits : \A j \in hits : h <= j
             IN  SubSeq(s, i, k) \o <<NUL>> \o MaskInitialsFrom(s, k + 2)

Protect(s) == MaskInitialsFrom(MaskAbbreviationsFrom(s, 1), 1)

\* replace without the g flag: the first U+0000 only
RestoreFirst(line) ==
    [i \in 1..Len(line) |->
        IF line[i] = NUL /\ \A j \in 1..(i - 1) : line[j] # NUL THEN "." ELSE line[i]]

\* line.replace(/\u0000/g, '.')
Restore(line) == [i \in 1..Len(line) |-> IF line[i] = NUL THEN "." ELSE line[i]]

RestoreAll(ls) == [i \in 1..Len(ls) |-> Restore(ls[i])]

\* a text taken as one paragraph, line breaks included
SplitNoParagraphs(s) == <<s>>

\* protectedRaw.split(/\r?\n/)
RECURSIVE SplitParagraphs(_)
SplitParagraphs(s) ==
    LET nl == IndexOf(s, "\n", 0)
    IN  IF nl = -1 THEN <<s>>
        ELSE LET cut == IF nl >= 1 /\ s[nl] = "\r" THEN nl - 1 ELSE nl
             IN  <<SubstringTo(s, cut)>> \o SplitParagraphs(SubstringFrom(s, nl + 1))

-----------------------------------------------------------------------------
(* trySplitAndReflow: text.split(separatorRegex) and the atoms *)

\* (?=\s|$) before 1-based position i
LookaheadSpaceOrEnd(s, i) == i > Len(s) \/ IsSpace(s[i])

\* the length of the longest run of characters of class at or after position i
RECURSIVE RunLen(_, _, _)
RunLen(s, i, class) ==
    IF i <= Len(s) /\ s[i] \in class THEN 1 + RunLen(s, i + 1, class) ELSE 0

\* /([.!?]+)(?=\s|$)/ at position q: the length matched, 0 if no match
SentenceMatchLen(s, q) ==
    LET n == RunLen(s, q, SentencePunct)
    IN  IF n > 0 /\ LookaheadSpaceOrEnd(s, q + n) THEN n ELSE 0

\* a clause expression whose hyphens need no whitespace around them:
\* /([,;:]|[-]+|\.\.\.)(?=\s|$)/
ClauseMatchLenAnyHyphen(s, q) ==
    LET h == RunLen(s, q, Hyphens)
    IN  IF s[q] \in ClausePunct /\ LookaheadSpaceOrEnd(s, q + 1) THEN 1
        ELSE IF h > 0 /\ LookaheadSpaceOrEnd(s, q + h) THEN h
        ELSE IF /\ q + 2 <= Len(s)
                /\ s[q] = "." /\ s[q + 1] = "." /\ s[q + 2] = "."
                /\ LookaheadSpaceOrEnd(s, q + 3) THEN 3
        ELSE 0

\* /([,;:]|\s[-]+\s|\.\.\.)(?=\s|$)/ at position q: the length matched, 0 if no match
ClauseMatchLen(s, q) ==
    LET h == RunLen(s, q + 1, Hyphens)
    IN  IF s[q] \in ClausePunct /\ LookaheadSpaceOrEnd(s, q + 1) THEN 1
        ELSE IF /\ IsSpace(s[q])
                /\ h > 0
                /\ q + h + 1 <= Len(s)
                /\ IsSpace(s[q + h + 1])
                /\ LookaheadSpaceOrEnd(s, q + h + 2) THEN h + 2
        ELSE IF /\ q + 2 <= Len(s)
                /\ s[q] = "." /\ s[q + 1] = "." /\ s[q + 2] = "."
                /\ LookaheadSpaceOrEnd(s, q + 3) THEN 3
        ELSE 0

MatchLen(s, q, strategy) ==
    IF strategy = "sentence" THEN SentenceMatchLen(s, q) ELSE ClauseMatchLen(s, q)

\* text.split(regex) with one capturing group: <<text, sep, text, sep, ..., text>>;
\* p is where the current part starts, q the first position where a match is
\* looked for: the leftmost match at or after q ends the part
RECURSIVE RegexSplit(_, _, _, _)
RegexSplit(s, strategy, p, q) ==
    LET hits == {k \in q..Len(s) : MatchLen(s, k, strategy) > 0}
    IN  IF hits = {} THEN <<SubSeq(s, p, Len(s))>>
        ELSE LET k == CHOOSE h \in hits : \A j \in hits : h <= j
                 n == MatchLen(s, k, strategy)
             IN  <<SubSeq(s, p, k - 1), SubSeq(s, k, k + n - 1)>>
                     \o RegexSplit(s, strategy, k + n, k + n)

\* atoms built without dropping the empty ones
RECURSIVE BuildAtomsKeepingEmpty(_)
BuildAtomsKeepingEmpty(parts) ==
    IF parts = <<>> THEN <<>>
    ELSE LET content == parts[1]
             sep     == IF Len(parts) >= 2 THEN parts[2] ELSE <<>>
         IN  <<Trim(content \o sep)>>
                 \o BuildAtomsKeepingEmpty(SubSeq(parts, 3, Len(parts)))

\* the loop building atoms from parts: (content + sep).trim(), the empty ones dropped
RECURSIVE BuildAtoms(_)
BuildAtoms(parts) ==
    IF parts = <<>> THEN <<>>
    ELSE LET content  == parts[1]
             sep      == IF Len(parts) >= 2 THEN parts[2] ELSE <<>>
             combined == Trim(content \o sep)
             rest     == BuildAtoms(SubSeq(parts, 3, Len(parts)))
         IN  IF combined # <<>> THEN <<combined>> \o rest ELSE rest

\* a split that counts as soon as a delimiter matched, however many atoms remain
SplitAtomsUnchecked(text, strategy) ==
    LET parts == RegexSplit(text, strategy, 1, 1)
    IN  IF Len(parts) < 3 THEN <<>> ELSE BuildAtoms(parts)

\* the two strategies taken in the other order
SplitAtomsClauseFirst(text, strategy) ==
    LET other == IF strategy = "sentence" THEN "clause" ELSE "sentence"
        parts == RegexSplit(text, other, 1, 1)
        atoms == BuildAtoms(parts)
    IN  IF Len(parts) < 3 \/ Len(atoms) < 2 THEN <<>> ELSE atoms

\* the atoms trySplitAndReflow packs, <<>> when it returns false
SplitAtoms(text, strategy) ==
    LET parts == RegexSplit(text, strategy, 1, 1)
        atoms == BuildAtoms(parts)
    IN  IF Len(parts) < 3 \/ Len(atoms) < 2 THEN <<>> ELSE atoms

-----------------------------------------------------------------------------
(* processSegment's thresholds and findBestSplitIndex *)

\* a tolerance of the target length itself
WithinTarget(n, limit) == n <= limit

\* text.length <= Math.max(limit * 1.5, limit + 5)
WithinMaxLen(n, limit) == 2 * n <= 3 * limit \/ n <= limit + 5

\* a packing limit of limit * 3
FitsReflowLoose(n, limit) == n <= 3 * limit

\* the joined length counted without the space
FitsReflowWithoutSpace(n, limit) == 10 * (n - 1) <= 13 * limit

\* currentLine.length + 1 + atom.length <= limit * 1.3
FitsReflow(n, limit) == 10 * n <= 13 * limit

\* no atom taken as huge: every atom that does not fit starts a line
IsHugeAtomNever(n, limit) == FALSE

\* a threshold of limit * 2.5
IsHugeAtomLoose(n, limit) == 2 * n > 5 * limit

\* atom.length > limit * 1.5
IsHugeAtom(n, limit) == 2 * n > 3 * limit

\* index < limit * 0.4
TooEarly(index, limit) == 5 * index < 2 * limit

\* a ceiling of limit * 2
NearEnoughLoose(index, limit) == index <= 2 * limit

\* a ceiling of limit * 1.2
NearEnoughTight(index, limit) == 5 * index <= 6 * limit

\* nextSpace <= limit * 1.4
NearEnough(index, limit) == 5 * index <= 7 * limit

\* an early space given up for a hard cut when no later space is near enough
findBestSplitIndexRejecting(text, limit) ==
    LET index     == LastIndexOf(text, " ", limit)
        nextSpace == IndexOf(text, " ", limit)
    IN  IF nextSpace # -1 /\ NearEnough(nextSpace, limit) /\ TooEarly(index, limit)
        THEN nextSpace
        ELSE IF TooEarly(index, limit) THEN -1 ELSE index

findBestSplitIndex(text, limit) ==
    LET index     == LastIndexOf(text, " ", limit)
        nextSpace == IndexOf(text, " ", limit)
    IN  IF TooEarly(index, limit) /\ nextSpace # -1 /\ NearEnough(nextSpace, limit)
        THEN nextSpace
        ELSE IF index = -1
             THEN IF nextSpace # -1 /\ NearEnough(nextSpace, limit)
                  THEN nextSpace
                  ELSE -1
             ELSE index

\* the cut always made at limit, the space found left aside
SplitIndexAtLimit(text, limit) == limit

\* a hard cut one character after limit
SplitIndexPastLimit(text, limit) ==
    LET i == findBestSplitIndex(text, limit)
    IN  IF i = -1 THEN limit + 1 ELSE i

\* the cut without the line that turns -1 into limit: substring takes -1 as 0
SplitIndexUnchecked(text, limit) ==
    LET i == findBestSplitIndex(text, limit)
    IN  IF i = -1 THEN 0 ELSE i

\* the cut processSegment makes when neither punctuation strategy splits
SplitIndex(text, limit) ==
    LET i == findBestSplitIndex(text, limit)
    IN  IF i = -1 THEN limit ELSE i

-----------------------------------------------------------------------------
(* The calls in progress *)

\* a call of processSegment(text, limit, accumulator); caller is the segment of
\* the call that made it, <<>> for the call made by splitLyrics
SegmentFrame(text, caller) ==
    [kind |-> "segment", text |-> text, caller |-> caller,
     atoms |-> <<>>, currentLine |-> <<>>, packed |-> 0]

\* a call of trySplitAndReflow(text, ...) inside its loop over atoms: the atoms
\* not visited yet, currentLine, and the number of atoms currentLine holds
ReflowFrame(text, atoms, currentLine, packed) ==
    [kind |-> "reflow", text |-> text, caller |-> <<>>,
     atoms |-> atoms, currentLine |-> currentLine, packed |-> packed]

Top == stack[Len(stack)]

Pop == SubSeq(stack, 1, Len(stack) - 1)

-----------------------------------------------------------------------------
(* The inputs *)

\* the bounds of the inputs
MaxLimit == 4

MaxTokens == 3

MaxBlankLen == 4

MaxWordLen == 20

\* all sequences of at least lo and at most hi elements of S
SeqsOf(S, lo, hi) == UNION {[1..n -> S] : n \in lo..hi}

\* words with and without the punctuation and the spaces the strategies look for
Tokens ==
    { <<"a", " ">>,
      <<"a", "b">>,
      <<"a", "b", "a", "b", " ">>,
      <<"a", ".", " ">>,
      <<"a", ".", " ", " ">>,
      <<"D", "r", ".", " ">>,
      <<"D", ".", " ">>,
      <<"a", ",", " ">>,
      <<" ", "-", " ", " ">>,
      <<"\n">> }

TokenTexts == {Concat(ts) : ts \in SeqsOf(Tokens, 1, MaxTokens)}

\* blank and nearly blank texts, the empty one among them
BlankTexts == SeqsOf({" ", "\t", "\r", "\n", "a"}, 0, MaxBlankLen)

\* one word without a space or punctuation
WordTexts == {[i \in 1..n |-> "a"] : n \in 1..MaxWordLen}

\* texts that already hold the masking character
SentinelTexts ==
    {x \o <<NUL>> \o y : x, y \in {<<>>, <<"a">>, <<"a", ".", " ">>, <<"a", "b", "a", "b", " ">>}}

AbbreviationText ==
    <<"D","r","."," ","S","m","i","t","h"," ","m","e","t"," ",
      "M","r","."," ","J","o","n","e","s",".">>

SentenceText ==
    <<"H","e","l","l","o"," ","w","o","r","l","d","."," ",
      "T","h","i","s"," ","i","s"," ","a"," ","t","e","s","t"," ",
      "s","e","n","t","e","n","c","e"," ","t","h","a","t"," ","i","s"," ",
      "q","u","i","t","e"," ","l","o","n","g"," ","i","n","d","e","e","d",".">>

HyphenText ==
    <<"s","e","m","i","-","d","e","t","a","c","h","e","d"," ",
      "h","o","u","s","e"," ","-"," ","b","u","i","l","t"," ","i","n"," ",
      "1","9","9","0">>

LongWordText == [i \in 1..50 |-> "a"]

\* two paragraphs that are both split, with \r\n between them
TwoParagraphText ==
    <<"S","t","o","p"," ","n","o","w","."," ","G","o"," ","o","n",".","\r","\n",
      "W","e","l","l",","," ","w","a","i","t"," ","h","e","r","e",".">>

\* a short sentence, one too long to be an atom, and a short one
ThreeSentenceText ==
    <<"S","t","o","p","."," ",
      "T","h","i","s"," ","s","e","n","t","e","n","c","e"," ","i","s"," ",
      "f","a","r"," ","t","o","o"," ","l","o","n","g","."," ","G","o",".">>

ToUpper(c) ==
    IF c \in Range(LowerLetters)
    THEN UpperLetters[CHOOSE i \in 1..26 : LowerLetters[i] = c]
    ELSE c

\* every abbreviation as written in the code, in lower case and in upper case,
\* and every capital letter, each with its period, before two words
TitleTexts ==
    LET words == <<"a", "b", "a", "b", " ", "a", "b">>
        given == {Abbreviations[a] : a \in 1..Len(Abbreviations)}
        lower == {[k \in 1..Len(w) |-> ToLower(w[k])] : w \in given}
        upper == {[k \in 1..Len(w) |-> ToUpper(w[k])] : w \in given}
        initials == {<<c>> : c \in Range(UpperLetters)}
    IN  {w \o <<".", " ">> \o words : w \in given \cup lower \cup upper \cup initials}

\* a hyphen inside a word, a run of hyphens between spaces with a second space
\* after it, and a hyphen between single spaces
HyphenRunText ==
    <<"s","e","m","i","-","d","e","t","a","c","h","e","d"," ",
      "h","o","u","s","e"," ","-","-"," "," ",
      "b","u","i","l","t"," ","i","n"," ","1","9","9","0"," ","-"," ",
      "t","h","e","n"," ","s","o","l","d">>

\* words with a tab between them: "ab<tab>ab abab" and "ababa<tab>abab ab"
TabTexts ==
    { <<"a","b","\t","a","b"," ","a","b","a","b">>,
      <<"a","b","a","b","a","\t","a","b","a","b"," ","a","b">> }

\* two short sentences the packer joins and a third that is cut mid-word and
\* at spaces: "a. a. abababababab ab abab ab"
MixedText ==
    <<"a","."," ","a","."," ","a","b","a","b","a","b","a","b","a","b","a","b"," ",
      "a","b"," ","a","b","a","b"," ","a","b">>

\* the examples of the specification, with their target lengths
Scenarios ==
    {[raw |-> AbbreviationText, targetLen |-> 100],
     [raw |-> SentenceText, targetLen |-> 20],
     [raw |-> LongWordText, targetLen |-> 10],
     [raw |-> TwoParagraphText, targetLen |-> 5],
     [raw |-> ThreeSentenceText, targetLen |-> 10],
     [raw |-> HyphenRunText, targetLen |-> 10],
     [raw |-> MixedText, targetLen |-> 4]}
    \cup {[raw |-> t, targetLen |-> 2] : t \in TitleTexts}
    \cup {[raw |-> t, targetLen |-> 4] : t \in TabTexts}
    \cup {[raw |-> HyphenText, targetLen |-> l] : l \in 5..Len(HyphenText)}

Inputs ==
    {[raw |-> t, targetLen |-> l] :
        t \in TokenTexts \cup BlankTexts \cup WordTexts \cup SentinelTexts,
        l \in 1..MaxLimit}
    \cup Scenarios

\* no call of the runtime store made yet
NoStoreCall == [op |-> "none", arg |-> 0, before |-> 0]

\* the caller has not called yet
NoCall == [raw |-> <<>>, targetLen |-> 0, result |-> <<>>]

(* The library the application starts with *)

\* a song of the library store; settings stands for settings.targetLen, the
\* setting the Editor's toolbar changes
Song(i, t, a, r, ls, n) ==
    [id |-> i, title |-> t, artist |-> a, rawLyrics |-> r, lines |-> ls,
     settings |-> n]

\* no song: find() found none, localSong is null, no timer is pending
NoSong == Song("null", <<>>, <<>>, <<>>, <<>>, 0)

\* no event on the lines of the Editor yet
NoEvent ==
    [key |-> "none", idx |-> 0, selectionStart |-> 0, selectionEnd |-> 0,
     lines |-> <<>>, active |-> 0]

\* performanceQueue: null
Null == <<"null">>

\* three songs, of two lines, of one line and without lines
Library ==
    << Song("A", <<"t">>, <<>>, <<"a","b"," ","c">>,
            << <<"a","b">>, <<"c">> >>, 5),
       Song("B", <<>>, <<>>, <<"e">>, << <<"e">> >>, 5),
       Song("C", <<>>, <<>>, <<>>, <<>>, 5) >>

\* the songs of the one playlist, in its order
PlaylistSongs == <<"B", "A">>

SongIds == {Library[i].id : i \in 1..Len(Library)}

-----------------------------------------------------------------------------
Init ==
    /\ raw = <<>>
    /\ targetLen = 1
    /\ pc = "idle"
    /\ paragraphs = <<>>
    /\ lines = <<>>
    /\ origin = <<>>
    /\ stack = <<>>
    /\ result = <<>>
    /\ kept = NoCall
    /\ currentLineIndex = 0
    /\ called = NoStoreCall
    /\ performanceQueue = Null
    /\ songs = Library
    /\ view = "library"
    /\ id = "null"
    /\ returnPath = "null"
    /\ selectedSongId = "null"
    /\ localSong = NoSong
    /\ activeLineIdx = 0
    /\ isFirstRender = TRUE
    /\ timeout = NoSong
    /\ edits = 0
    /\ lastEdit = NoSong
    /\ keyed = NoEvent

-----------------------------------------------------------------------------
(* splitLyrics *)

\* the caller calls splitLyrics(raw, targetLen)
Call ==
    /\ pc = "idle"
    /\ \E in \in Inputs : raw' = in.raw /\ targetLen' = in.targetLen
    /\ pc' = "start"
    /\ paragraphs' = <<>>
    /\ lines' = <<>>
    /\ origin' = <<>>
    /\ stack' = <<>>
    /\ result' = <<>>
    /\ UNCHANGED <<app, kept>>

\* if (!raw) return [];
ReturnEmpty ==
    /\ pc = "start"
    /\ raw = <<>>
    /\ pc' = "done"
    /\ result' = <<>>
    /\ UNCHANGED <<app, kept, raw, targetLen, paragraphs, lines, origin, stack>>

\* an accumulator that lives outside the call: what the last call left in it
SharedAccumulator == lines

\* const lines: string[] = []
NewAccumulator == <<>>

\* protectedRaw, lines = [] and paragraphs
ProtectAndSplit ==
    /\ pc = "start"
    /\ raw # <<>>
    /\ paragraphs' = SplitParagraphs(Protect(raw))
    /\ lines' = NewAccumulator
    /\ origin' = <<>>
    /\ pc' = "split"
    /\ UNCHANGED <<app, kept, raw, targetLen, stack, result>>

\* trimmed = paragraph.trim(); if (!trimmed)
IsBlankParagraphUntrimmed(paragraph) == paragraph = <<>>

IsBlankParagraph(paragraph) == Trim(paragraph) = <<>>

\* a paragraph that is empty once trimmed: continue
SkipParagraph ==
    /\ pc = "split"
    /\ stack = <<>>
    /\ paragraphs # <<>>
    /\ IsBlankParagraph(Head(paragraphs))
    /\ paragraphs' = Tail(paragraphs)
    /\ UNCHANGED <<app, kept, raw, targetLen, pc, lines, origin, stack, result>>

\* processSegment(trimmed, targetLen, lines) is called
EnterParagraph ==
    /\ pc = "split"
    /\ stack = <<>>
    /\ paragraphs # <<>>
    /\ ~IsBlankParagraph(Head(paragraphs))
    /\ stack' = <<SegmentFrame(Trim(Head(paragraphs)), <<>>)>>
    /\ paragraphs' = Tail(paragraphs)
    /\ UNCHANGED <<app, kept, raw, targetLen, pc, lines, origin, result>>

\* return lines.map(line => line.replace(/\u0000/g, '.'))
ReturnLines ==
    /\ pc = "split"
    /\ stack = <<>>
    /\ paragraphs = <<>>
    /\ result' = RestoreAll(lines)
    /\ pc' = "done"
    /\ UNCHANGED <<app, kept, raw, targetLen, paragraphs, lines, origin, stack>>

-----------------------------------------------------------------------------
(* processSegment *)

\* text.length <= maxLen: push text and return
Terminal ==
    /\ stack # <<>>
    /\ Top.kind = "segment"
    /\ WithinMaxLen(Len(Top.text), targetLen)
    /\ lines' = Append(lines, Top.text)
    /\ origin' = Append(origin, "terminal")
    /\ stack' = Pop
    /\ UNCHANGED <<app, kept, raw, targetLen, pc, paragraphs, result>>

\* Strategy 1: trySplitAndReflow with the sentence punctuation reaches its loop
SentenceSplit ==
    /\ stack # <<>>
    /\ Top.kind = "segment"
    /\ ~WithinMaxLen(Len(Top.text), targetLen)
    /\ SplitAtoms(Top.text, "sentence") # <<>>
    /\ stack' = Append(Pop, ReflowFrame(Top.text, SplitAtoms(Top.text, "sentence"), <<>>, 0))
    /\ UNCHANGED <<app, kept, raw, targetLen, pc, paragraphs, lines, origin, result>>

\* Strategy 2: Strategy 1 returned false and trySplitAndReflow with the clause
\* punctuation reaches its loop
ClauseSplit ==
    /\ stack # <<>>
    /\ Top.kind = "segment"
    /\ ~WithinMaxLen(Len(Top.text), targetLen)
    /\ SplitAtoms(Top.text, "sentence") = <<>>
    /\ SplitAtoms(Top.text, "clause") # <<>>
    /\ stack' = Append(Pop, ReflowFrame(Top.text, SplitAtoms(Top.text, "clause"), <<>>, 0))
    /\ UNCHANGED <<app, kept, raw, targetLen, pc, paragraphs, lines, origin, result>>

\* Strategy 3: both returned false; cut at the best space or at limit, push the
\* head and call processSegment on the tail
SpaceSplit ==
    /\ stack # <<>>
    /\ Top.kind = "segment"
    /\ ~WithinMaxLen(Len(Top.text), targetLen)
    /\ SplitAtoms(Top.text, "sentence") = <<>>
    /\ SplitAtoms(Top.text, "clause") = <<>>
    /\ LET text       == Top.text
           splitIndex == SplitIndex(text, targetLen)
           head       == Trim(SubstringTo(text, splitIndex))
           tail       == Trim(SubstringFrom(text, splitIndex))
           how        == IF findBestSplitIndex(text, targetLen) = -1
                         THEN "hardcut" ELSE "space"
       IN  /\ lines' = IF head # <<>> THEN Append(lines, head) ELSE lines
           /\ origin' = IF head # <<>> THEN Append(origin, how) ELSE origin
           /\ stack' = IF tail # <<>>
                       THEN Append(Pop, SegmentFrame(tail, text))
                       ELSE Pop
    /\ UNCHANGED <<app, kept, raw, targetLen, pc, paragraphs, result>>

-----------------------------------------------------------------------------
(* trySplitAndReflow: the loop over the atoms *)

\* the atom fits: currentLine += " " + atom
JoinAtom ==
    /\ stack # <<>>
    /\ Top.kind = "reflow"
    /\ Top.atoms # <<>>
    /\ LET atom == Head(Top.atoms)
           cur  == Top.currentLine
       IN  /\ cur # <<>>
           /\ FitsReflow(Len(cur) + 1 + Len(atom), targetLen)
           /\ stack' = Append(Pop, ReflowFrame(Top.text, Tail(Top.atoms),
                                               cur \o <<" ">> \o atom, Top.packed + 1))
    /\ UNCHANGED <<app, kept, raw, targetLen, pc, paragraphs, lines, origin, result>>

\* a running line that stays as it was after a huge atom
KeepLine(cur) == cur

\* currentLine = "" after processSegment(atom, limit, accumulator)
ResetLine(cur) == <<>>

\* the atom does not fit (or currentLine is empty): push currentLine if there is
\* one; the atom starts the next line, or, when huge, goes to processSegment
StartLine ==
    /\ stack # <<>>
    /\ Top.kind = "reflow"
    /\ Top.atoms # <<>>
    /\ LET atom == Head(Top.atoms)
           cur  == Top.currentLine
       IN  /\ ~(cur # <<>> /\ FitsReflow(Len(cur) + 1 + Len(atom), targetLen))
           /\ lines' = IF cur # <<>> THEN Append(lines, cur) ELSE lines
           /\ origin' = IF cur # <<>>
                        THEN Append(origin, IF Top.packed > 1 THEN "packed" ELSE "atom")
                        ELSE origin
           /\ stack' = IF IsHugeAtom(Len(atom), targetLen)
                       THEN Append(Pop, ReflowFrame(Top.text, Tail(Top.atoms), ResetLine(cur), 0))
                                \o <<SegmentFrame(atom, Top.text)>>
                       ELSE Append(Pop, ReflowFrame(Top.text, Tail(Top.atoms), atom, 1))
    /\ UNCHANGED <<app, kept, raw, targetLen, pc, paragraphs, result>>

\* after the loop: push currentLine if there is one, return true
FinishReflow ==
    /\ stack # <<>>
    /\ Top.kind = "reflow"
    /\ Top.atoms = <<>>
    /\ lines' = IF Top.currentLine # <<>> THEN Append(lines, Top.currentLine) ELSE lines
    /\ origin' = IF Top.currentLine # <<>>
                 THEN Append(origin, IF Top.packed > 1 THEN "packed" ELSE "atom")
                 ELSE origin
    /\ stack' = Pop
    /\ UNCHANGED <<app, kept, raw, targetLen, pc, paragraphs, result>>

-----------------------------------------------------------------------------

\* the steps of a call in progress
Run ==
    \/ ReturnEmpty
    \/ ProtectAndSplit
    \/ SkipParagraph
    \/ EnterParagraph
    \/ ReturnLines
    \/ Terminal
    \/ SentenceSplit
    \/ ClauseSplit
    \/ SpaceSplit
    \/ JoinAtom
    \/ StartLine
    \/ FinishReflow

Next == Call \/ Run

Spec == Init /\ [][Next]_vars

-----------------------------------------------------------------------------
(* A caller that calls splitLyrics again and again *)

\* the arguments of the repeated calls
CallInputs ==
    {[raw |-> <<>>, targetLen |-> 1],
     [raw |-> <<"a", "\n", " ", "\r", "\n", "a", "b">>, targetLen |-> 1],
     [raw |-> <<"a", ".", " ", " ", "a", ".", " ", " ", "a", "b">>, targetLen |-> 4],
     [raw |-> <<"a", ",", " ", "a", "b", "a", "b", " ", "a", "b">>, targetLen |-> 2],
     [raw |-> <<"D", "r", ".", " ", "a", "b", "a", "b", " ", "a", ".">>, targetLen |-> 3],
     [raw |-> AbbreviationText, targetLen |-> 100],
     [raw |-> AbbreviationText, targetLen |-> 5],
     [raw |-> SentenceText, targetLen |-> 20],
     [raw |-> SentenceText, targetLen |-> 8],
     [raw |-> HyphenText, targetLen |-> 5],
     [raw |-> HyphenText, targetLen |-> 10],
     [raw |-> LongWordText, targetLen |-> 10]}

\* splitLyrics is called when no call is in progress: the first call, or a call
\* after a return; the call itself touches nothing the call before left behind,
\* and the caller keeps what its first call returned
NextCall ==
    /\ pc \in {"idle", "done"}
    /\ \E in \in CallInputs : raw' = in.raw /\ targetLen' = in.targetLen
    /\ pc' = "start"
    /\ kept' = IF pc = "done" /\ kept = NoCall
                THEN [raw |-> raw, targetLen |-> targetLen, result |-> result]
                ELSE kept
    /\ UNCHANGED <<app, paragraphs, lines, origin, stack, result>>

CallsNext == NextCall \/ Run

CallsSpec == Init /\ [][CallsNext]_vars

-----------------------------------------------------------------------------
(* The functions by their values: the lines a call appends or returns *)

RECURSIVE processSegment(_, _), reflow(_, _, _)

\* the lines processSegment(text, limit, accumulator) appends to the accumulator
processSegment(text, limit) ==
    IF WithinMaxLen(Len(text), limit) THEN <<text>>
    ELSE IF SplitAtoms(text, "sentence") # <<>>
         THEN reflow(SplitAtoms(text, "sentence"), <<>>, limit)
    ELSE IF SplitAtoms(text, "clause") # <<>>
         THEN reflow(SplitAtoms(text, "clause"), <<>>, limit)
    ELSE LET splitIndex == SplitIndex(text, limit)
             head       == Trim(SubstringTo(text, splitIndex))
             tail       == Trim(SubstringFrom(text, splitIndex))
         IN  (IF head # <<>> THEN <<head>> ELSE <<>>)
                 \o (IF tail # <<>> THEN processSegment(tail, limit) ELSE <<>>)

\* the lines the loop of trySplitAndReflow appends for the atoms not visited
\* yet, the flush after the loop included
reflow(atoms, currentLine, limit) ==
    IF atoms = <<>>
    THEN IF currentLine # <<>> THEN <<currentLine>> ELSE <<>>
    ELSE LET atom == Head(atoms)
         IN  IF currentLine # <<>> /\ FitsReflow(Len(currentLine) + 1 + Len(atom), limit)
             THEN reflow(Tail(atoms), currentLine \o <<" ">> \o atom, limit)
             ELSE (IF currentLine # <<>> THEN <<currentLine>> ELSE <<>>)
                      \o (IF IsHugeAtom(Len(atom), limit)
                          THEN processSegment(atom, limit)
                                   \o reflow(Tail(atoms), ResetLine(currentLine), limit)
                          ELSE reflow(Tail(atoms), atom, limit))

\* the lines the loop of splitLyrics appends for the paragraphs ps
RECURSIVE paragraphLines(_, _)
paragraphLines(ps, limit) ==
    IF ps = <<>> THEN <<>>
    ELSE (IF IsBlankParagraph(Head(ps)) THEN <<>>
          ELSE processSegment(Trim(Head(ps)), limit))
             \o paragraphLines(Tail(ps), limit)

\* the value of splitLyrics(text, limit)
splitLyrics(text, limit) ==
    IF text = <<>> THEN <<>>
    ELSE RestoreAll(paragraphLines(SplitParagraphs(Protect(text)), limit))

-----------------------------------------------------------------------------
(* Editor: highlightSegments locates the lines in the raw lyrics *)

\* raw.indexOf(line, searchCursor): the 0-based index of the first occurrence of
\* line at or after from, -1 if there is none
IndexOfText(s, line, from) ==
    LET hits == {i \in 0..(Len(s) - Len(line)) :
                    i >= from /\ SubSeq(s, i + 1, i + Len(line)) = line}
    IN  IF hits = {} THEN -1
        ELSE CHOOSE i \in hits : \A j \in hits : i <= j

\* the loop of highlightSegments from line i (1-based) on, for the active line
\* active: the value of start when the loop ends, -1 when nothing is highlighted
RECURSIVE HighlightStart(_, _, _, _, _)
HighlightStart(s, ls, i, active, searchCursor) ==
    IF i > active THEN -1
    ELSE IF i > Len(ls) \/ ls[i] = <<>>
         THEN HighlightStart(s, ls, i + 1, active, searchCursor)
    ELSE LET idx == IndexOfText(s, ls[i], searchCursor)
         IN  IF idx = -1 THEN HighlightStart(s, ls, i + 1, active, searchCursor)
             ELSE IF i = active THEN idx
             ELSE HighlightStart(s, ls, i + 1, active, idx + Len(ls[i]))

-----------------------------------------------------------------------------
(* useRuntimeStore: the line shown by the Performance view *)

MaxOf(a, b) == IF a >= b THEN a ELSE b

MinOf(a, b) == IF a <= b THEN a ELSE b

\* setCurrentLineIndex: (index) => set({ currentLineIndex: Math.max(0, index) })
setCurrentLineIndex(index) == MaxOf(0, index)

\* nextLine without the case of a song without lines
nextLineOfAny(current, totalLines) == MinOf(current + 1, totalLines - 1)

\* nextLine: the new currentLineIndex
nextLine(current, totalLines) ==
    IF totalLines <= 0 THEN 0 ELSE MinOf(current + 1, totalLines - 1)

\* prevLine: the new currentLineIndex
prevLine(current) == MaxOf(current - 1, 0)

\* the largest index and number of lines a caller passes
MaxIndex == 6

\* a caller of the store calls setCurrentLineIndex(index)
CallSetCurrentLineIndex ==
    /\ \E index \in -2..MaxIndex :
           /\ currentLineIndex' = setCurrentLineIndex(index)
           /\ called' = [op |-> "setCurrentLineIndex", arg |-> index,
                         before |-> currentLineIndex]
    /\ UNCHANGED <<splitter, views>>

\* a caller of the store calls nextLine(totalLines)
CallNextLine ==
    /\ \E totalLines \in -1..MaxIndex :
           /\ currentLineIndex' = nextLine(currentLineIndex, totalLines)
           /\ called' = [op |-> "nextLine", arg |-> totalLines,
                         before |-> currentLineIndex]
    /\ UNCHANGED <<splitter, views>>

\* a caller of the store calls prevLine()
CallPrevLine ==
    /\ currentLineIndex' = prevLine(currentLineIndex)
    /\ called' = [op |-> "prevLine", arg |-> 0, before |-> currentLineIndex]
    /\ UNCHANGED <<splitter, views>>

StoreNext == CallSetCurrentLineIndex \/ CallNextLine \/ CallPrevLine

StoreSpec == Init /\ [][StoreNext]_vars

-----------------------------------------------------------------------------
(* The views: finding the songs *)

\* songs.find(s => s.id === sid), NoSong when there is none
Find(ss, sid) ==
    LET hits == {i \in 1..Len(ss) : ss[i].id = sid}
    IN  IF hits = {} THEN NoSong
        ELSE ss[CHOOSE i \in hits : \A j \in hits : i <= j]

\* {...s, ...updates}
Assign(s, updates) ==
    [f \in DOMAIN s |-> IF f \in DOMAIN updates THEN updates[f] ELSE s[f]]

\* updateSong(sid, updates): the new songs (updatedAt is not modelled)
updateSong(ss, sid, updates) ==
    [i \in 1..Len(ss) |-> IF ss[i].id = sid THEN Assign(ss[i], updates) ELSE ss[i]]

\* the fields the autosave timer writes
SavedFields(s) ==
    [title |-> s.title, artist |-> s.artist, rawLyrics |-> s.rawLyrics,
     lines |-> s.lines, settings |-> s.settings]

\* array[k] with a 0-based k, NoSong for undefined
At(collection, k) ==
    IF k \in 0..(Len(collection) - 1) THEN collection[k + 1] ELSE NoSong

\* queue.map(id => songs.find(s => s.id === id)).filter(Boolean)
RECURSIVE FoundSongs(_, _)
FoundSongs(queue, ss) ==
    IF queue = <<>> THEN <<>>
    ELSE LET s == Find(ss, Head(queue))
         IN  (IF s = NoSong THEN <<>> ELSE <<s>>) \o FoundSongs(Tail(queue), ss)

\* Performance: queuedSongs && queuedSongs.length > 0 ? queuedSongs : songs
activeCollection ==
    IF performanceQueue # Null /\ FoundSongs(performanceQueue, songs) # <<>>
    THEN FoundSongs(performanceQueue, songs)
    ELSE songs

\* Performance: activeCollection.findIndex(s => s?.id === id), 0-based
songIndex ==
    LET hits == {k \in 0..(Len(activeCollection) - 1) : activeCollection[k + 1].id = id}
    IN  IF hits = {} THEN -1 ELSE CHOOSE k \in hits : \A j \in hits : k <= j

\* Performance: song, nextSong and prevSong
song == At(activeCollection, songIndex)

nextSong == At(activeCollection, songIndex + 1)

prevSong == At(activeCollection, songIndex - 1)

-----------------------------------------------------------------------------
(* The views: mounting and leaving the Editor *)

\* the Editor of song sid is mounted: localSong becomes a copy of the song,
\* the autosave effect passes its first run
EditorMounted(sid) ==
    /\ localSong' = Find(songs, sid)
    /\ activeLineIdx' = 0
    /\ isFirstRender' = FALSE
    /\ timeout' = NoSong
    /\ keyed' = NoEvent
    /\ UNCHANGED <<edits, lastEdit>>

\* the Editor is unmounted: its state is gone, the effect's cleanup clears
\* the pending timer
EditorUnmounted ==
    /\ localSong' = NoSong
    /\ activeLineIdx' = 0
    /\ isFirstRender' = TRUE
    /\ timeout' = NoSong
    /\ keyed' = NoEvent
    /\ UNCHANGED <<edits, lastEdit>>

\* Library: a click on a song opens its Editor
OpenEditor ==
    /\ view = "library"
    /\ \E sid \in SongIds :
           /\ Find(songs, sid) # NoSong
           /\ view' = "editor"
           /\ id' = sid
           /\ EditorMounted(sid)
    /\ UNCHANGED <<splitter, currentLineIndex, called, performanceQueue, songs,
                   returnPath, selectedSongId>>

\* Editor: the back button, navigate('/')
EditorBack ==
    /\ view = "editor"
    /\ view' = "library"
    /\ id' = "null"
    /\ EditorUnmounted
    /\ UNCHANGED <<splitter, currentLineIndex, called, performanceQueue, songs,
                   returnPath, selectedSongId>>

\* Editor: handleGoToPerform saves the local song, shows the active line and
\* clears the queue
handleGoToPerform ==
    /\ view = "editor"
    /\ songs' = updateSong(songs, Find(songs, id).id, localSong)
    /\ currentLineIndex' = setCurrentLineIndex(activeLineIdx)
    /\ called' = [op |-> "setCurrentLineIndex", arg |-> activeLineIdx,
                  before |-> currentLineIndex]
    /\ performanceQueue' = Null
    /\ view' = "perform"
    /\ returnPath' = "null"
    /\ EditorUnmounted
    /\ UNCHANGED <<splitter, id, selectedSongId>>

-----------------------------------------------------------------------------
(* The views: the lines of the Editor, handleLineKeyDown *)

\* the most lines the Editor's song is given
MaxLines == 4

\* setLocalSong(s) and the run of the autosave effect that follows it: the
\* pending timer is cleared and one that will write s is set
SetLocalSong(s) ==
    /\ localSong' = s
    /\ timeout' = IF isFirstRender THEN NoSong ELSE s
    /\ isFirstRender' = FALSE

\* an event on line idx with the textarea's selection, and the lines and the
\* active line it met
Event(key, idx, selectionStart, selectionEnd) ==
    [key |-> key, idx |-> idx, selectionStart |-> selectionStart,
     selectionEnd |-> selectionEnd, lines |-> localSong.lines,
     active |-> activeLineIdx]

\* Enter: newLines[idx] = textBefore; newLines.splice(idx + 1, 0, textAfter)
SplitLine(ls, idx, cursorPosition) ==
    LET currentText == ls[idx + 1]
        textBefore == SubSeq(currentText, 1, cursorPosition)
        textAfter == SubSeq(currentText, cursorPosition + 1, Len(currentText))
    IN  SubSeq(ls, 1, idx) \o <<textBefore, textAfter>> \o SubSeq(ls, idx + 2, Len(ls))

\* a merge that puts the line before the cursor's line behind it
MergeLinesReversed(ls, idx) ==
    SubSeq(ls, 1, idx - 1) \o <<ls[idx + 1] \o ls[idx]>> \o SubSeq(ls, idx + 2, Len(ls))

\* Backspace: newLines.splice(idx, 1); newLines[idx - 1] = prevText + currentText
MergeLines(ls, idx) ==
    LET currentText == ls[idx + 1]
        prevText == ls[idx]
    IN  SubSeq(ls, 1, idx - 1) \o <<prevText \o currentText>> \o SubSeq(ls, idx + 2, Len(ls))

\* [newLines[i], newLines[j]] = [newLines[j], newLines[i]]
SwapLines(ls, i, j) ==
    [k \in 1..Len(ls) |-> IF k = i + 1 THEN ls[j + 1]
                          ELSE IF k = j + 1 THEN ls[i + 1] ELSE ls[k]]

\* Editor: a click on line idx makes it the active line
ClickLine ==
    /\ view = "editor"
    /\ \E idx \in 0..(Len(localSong.lines) - 1) :
           /\ activeLineIdx' = idx
           /\ keyed' = Event("Click", idx, 0, 0)
    /\ UNCHANGED <<splitter, currentLineIndex, called, performanceQueue, songs,
                   route, localSong, isFirstRender, timeout, edits, lastEdit>>

\* "Add First Line", offered when the song has no lines
AddFirstLine ==
    /\ view = "editor"
    /\ Len(localSong.lines) = 0
    /\ SetLocalSong([localSong EXCEPT !.lines = << <<>> >>])
    /\ keyed' = Event("AddFirstLine", 0, 0, 0)
    /\ UNCHANGED <<splitter, currentLineIndex, called, performanceQueue, songs,
                   route, activeLineIdx, edits, lastEdit>>

\* Ctrl or Meta with ArrowUp in line idx, or the line's button: the line
\* changes places with the one above
MoveLineUp ==
    /\ view = "editor"
    /\ \E idx \in 0..(Len(localSong.lines) - 1) :
           /\ keyed' = Event("MoveUp", idx, 0, 0)
           /\ IF idx > 0
              THEN /\ SetLocalSong([localSong EXCEPT
                                       !.lines = SwapLines(localSong.lines, idx, idx - 1)])
                   /\ activeLineIdx' = idx - 1
              ELSE UNCHANGED <<localSong, timeout, isFirstRender, activeLineIdx>>
    /\ UNCHANGED <<splitter, currentLineIndex, called, performanceQueue, songs,
                   route, edits, lastEdit>>

\* Ctrl or Meta with ArrowDown in line idx, or the line's button: the line
\* changes places with the one below
MoveLineDown ==
    /\ view = "editor"
    /\ \E idx \in 0..(Len(localSong.lines) - 1) :
           /\ keyed' = Event("MoveDown", idx, 0, 0)
           /\ IF idx < Len(localSong.lines) - 1
              THEN /\ SetLocalSong([localSong EXCEPT
                                       !.lines = SwapLines(localSong.lines, idx, idx + 1)])
                   /\ activeLineIdx' = idx + 1
              ELSE UNCHANGED <<localSong, timeout, isFirstRender, activeLineIdx>>
    /\ UNCHANGED <<splitter, currentLineIndex, called, performanceQueue, songs,
                   route, edits, lastEdit>>

\* ArrowUp in line idx: the line above becomes the active line
PressArrowUp ==
    /\ view = "editor"
    /\ \E idx \in 0..(Len(localSong.lines) - 1) :
           /\ activeLineIdx' = MaxOf(0, idx - 1)
           /\ keyed' = Event("ArrowUp", idx, 0, 0)
    /\ UNCHANGED <<splitter, currentLineIndex, called, performanceQueue, songs,
                   route, localSong, isFirstRender, timeout, edits, lastEdit>>

\* ArrowDown in line idx: the line below becomes the active line
PressArrowDown ==
    /\ view = "editor"
    /\ \E idx \in 0..(Len(localSong.lines) - 1) :
           /\ activeLineIdx' = MinOf(Len(localSong.lines) - 1, idx + 1)
           /\ keyed' = Event("ArrowDown", idx, 0, 0)
    /\ UNCHANGED <<splitter, currentLineIndex, called, performanceQueue, songs,
                   route, localSong, isFirstRender, timeout, edits, lastEdit>>

\* Enter in line idx with the cursor at cursorPosition: the line is split
PressEnter ==
    /\ view = "editor"
    /\ Len(localSong.lines) < MaxLines
    /\ \E idx \in 0..(Len(localSong.lines) - 1) :
         \E cursorPosition \in 0..Len(localSong.lines[idx + 1]) :
           /\ SetLocalSong([localSong EXCEPT
                               !.lines = SplitLine(localSong.lines, idx, cursorPosition)])
           /\ activeLineIdx' = idx + 1
           /\ keyed' = Event("Enter", idx, cursorPosition, cursorPosition)
    /\ UNCHANGED <<splitter, currentLineIndex, called, performanceQueue, songs,
                   route, edits, lastEdit>>

\* Backspace in line idx with nothing selected and the cursor at the start,
\* idx > 0: the line is joined onto the one above (any other Backspace is
\* left to the textarea)
PressBackspace ==
    /\ view = "editor"
    /\ \E idx \in 0..(Len(localSong.lines) - 1) :
         \E selectionStart \in 0..Len(localSong.lines[idx + 1]) :
           \E selectionEnd \in selectionStart..Len(localSong.lines[idx + 1]) :
             /\ selectionStart = 0 /\ selectionEnd = 0 /\ idx > 0
             /\ SetLocalSong([localSong EXCEPT
                                 !.lines = MergeLines(localSong.lines, idx)])
             /\ activeLineIdx' = idx - 1
             /\ keyed' = Event("Backspace", idx, selectionStart, selectionEnd)
    /\ UNCHANGED <<splitter, currentLineIndex, called, performanceQueue, songs,
                   route, edits, lastEdit>>

EditorNext ==
    \/ OpenEditor
    \/ EditorBack
    \/ ClickLine
    \/ AddFirstLine
    \/ MoveLineUp
    \/ MoveLineDown
    \/ PressArrowUp
    \/ PressArrowDown
    \/ PressEnter
    \/ PressBackspace

EditorSpec == Init /\ [][EditorNext]_vars

-----------------------------------------------------------------------------
(* The views: PlaylistEditor *)

\* Library: a click on the playlist opens the PlaylistEditor
OpenPlaylist ==
    /\ view = "library"
    /\ view' = "playlist"
    /\ id' = "null"
    /\ UNCHANGED <<splitter, currentLineIndex, called, performanceQueue, songs,
                   returnPath, selectedSongId, editor>>

\* PlaylistEditor: the back button, navigate('/')
PlaylistBack ==
    /\ view = "playlist"
    /\ view' = "library"
    /\ selectedSongId' = "null"
    /\ UNCHANGED <<splitter, currentLineIndex, called, performanceQueue, songs,
                   id, returnPath, editor>>

\* PlaylistEditor: a click on a song of the playlist selects it
SelectSong ==
    /\ view = "playlist"
    /\ \E k \in 1..Len(PlaylistSongs) :
           /\ Find(songs, PlaylistSongs[k]) # NoSong
           /\ selectedSongId' = PlaylistSongs[k]
    /\ UNCHANGED <<splitter, currentLineIndex, called, performanceQueue, songs,
                   view, id, returnPath, editor>>

\* PlaylistEditor: handlePlay queues the playlist and performs the selected
\* song, or the first
handlePlay ==
    /\ view = "playlist"
    /\ Len(PlaylistSongs) # 0
    /\ LET targetSongId ==
               IF selectedSongId # "null" /\ selectedSongId \in Range(PlaylistSongs)
               THEN selectedSongId
               ELSE PlaylistSongs[1]
       IN  /\ performanceQueue' = PlaylistSongs
           /\ view' = "perform"
           /\ id' = targetSongId
           /\ returnPath' = "playlist"
    /\ selectedSongId' = "null"
    /\ UNCHANGED <<splitter, currentLineIndex, called, songs, editor>>

-----------------------------------------------------------------------------
(* The views: Performance.handleKeyDown *)

\* Space or ArrowRight: the next line, or the first line of the next song
KeySpace ==
    /\ view = "perform"
    /\ song # NoSong
    /\ LET totalLines == Len(song.lines)
       IN  /\ totalLines # 0
           /\ IF currentLineIndex >= totalLines - 1
              THEN /\ nextSong # NoSong
                   /\ currentLineIndex' = setCurrentLineIndex(0)
                   /\ called' = [op |-> "setCurrentLineIndex", arg |-> 0,
                                 before |-> currentLineIndex]
                   /\ id' = nextSong.id
                   /\ returnPath' = "null"
              ELSE /\ currentLineIndex' = nextLine(currentLineIndex, totalLines)
                   /\ called' = [op |-> "nextLine", arg |-> totalLines,
                                 before |-> currentLineIndex]
                   /\ UNCHANGED <<id, returnPath>>
    /\ UNCHANGED <<splitter, performanceQueue, songs, view, selectedSongId, editor>>

\* ArrowLeft: the previous line, or the last line of the previous song
KeyArrowLeft ==
    /\ view = "perform"
    /\ song # NoSong
    /\ LET totalLines == Len(song.lines)
       IN  /\ totalLines # 0
           /\ IF currentLineIndex <= 0
              THEN /\ prevSong # NoSong
                   /\ currentLineIndex' =
                          setCurrentLineIndex(MaxOf(Len(prevSong.lines) - 1, 0))
                   /\ called' = [op |-> "setCurrentLineIndex",
                                 arg |-> MaxOf(Len(prevSong.lines) - 1, 0),
                                 before |-> currentLineIndex]
                   /\ id' = prevSong.id
                   /\ returnPath' = "null"
              ELSE /\ currentLineIndex' = prevLine(currentLineIndex)
                   /\ called' = [op |-> "prevLine", arg |-> 0,
                                 before |-> currentLineIndex]
                   /\ UNCHANGED <<id, returnPath>>
    /\ UNCHANGED <<splitter, performanceQueue, songs, view, selectedSongId, editor>>

\* Home: the first line
KeyHome ==
    /\ view = "perform"
    /\ song # NoSong
    /\ currentLineIndex' = setCurrentLineIndex(0)
    /\ called' = [op |-> "setCurrentLineIndex", arg |-> 0,
                  before |-> currentLineIndex]
    /\ UNCHANGED <<splitter, views>>

\* End: the last line
KeyEnd ==
    /\ view = "perform"
    /\ song # NoSong
    /\ currentLineIndex' = setCurrentLineIndex(MaxOf(Len(song.lines) - 1, 0))
    /\ called' = [op |-> "setCurrentLineIndex",
                  arg |-> MaxOf(Len(song.lines) - 1, 0),
                  before |-> currentLineIndex]
    /\ UNCHANGED <<splitter, views>>

\* Escape: back to the playlist the song was played from, or to the Editor of
\* the song
KeyEscape ==
    /\ view = "perform"
    /\ song # NoSong
    /\ IF returnPath # "null"
       THEN /\ view' = "playlist"
            /\ id' = "null"
            /\ UNCHANGED editor
       ELSE /\ view' = "editor"
            /\ id' = song.id
            /\ EditorMounted(song.id)
    /\ returnPath' = "null"
    /\ UNCHANGED <<splitter, currentLineIndex, called, performanceQueue, songs,
                   selectedSongId>>

PerformNext ==
    \/ OpenEditor
    \/ EditorBack
    \/ ClickLine
    \/ handleGoToPerform
    \/ OpenPlaylist
    \/ PlaylistBack
    \/ SelectSong
    \/ handlePlay
    \/ KeySpace
    \/ KeyArrowLeft
    \/ KeyHome
    \/ KeyEnd
    \/ KeyEscape

PerformSpec == Init /\ [][PerformNext]_vars

-----------------------------------------------------------------------------
(* The views: the fields of the Editor and the autosave *)

\* the most changes typed into the Editor's fields
MaxEdits == 3

\* what the user types into a field or a line
Typed == {<<>>, <<"e">>}

\* a change typed into a field: setLocalSong(s), remembered as the latest change
Change(s) ==
    /\ view = "editor"
    /\ edits < MaxEdits
    /\ SetLocalSong(s)
    /\ lastEdit' = s
    /\ edits' = edits + 1
    /\ UNCHANGED <<splitter, currentLineIndex, called, performanceQueue, songs,
                   route, activeLineIdx>>

\* the title's onChange
ChangeTitle ==
    /\ \E text \in Typed :
           /\ text # localSong.title
           /\ Change([localSong EXCEPT !.title = text])
    /\ UNCHANGED keyed

\* the artist's onChange
ChangeArtist ==
    /\ \E text \in Typed :
           /\ text # localSong.artist
           /\ Change([localSong EXCEPT !.artist = text])
    /\ UNCHANGED keyed

\* the raw lyrics' onChange
ChangeRawLyrics ==
    /\ \E text \in Typed :
           /\ text # localSong.rawLyrics
           /\ Change([localSong EXCEPT !.rawLyrics = text])
    /\ UNCHANGED keyed

\* the toolbar's button that lowers settings.targetLen, not below 5
DecreaseTargetLen ==
    /\ Change([localSong EXCEPT !.settings = MaxOf(5, localSong.settings - 1)])
    /\ UNCHANGED keyed

\* the toolbar's button that raises settings.targetLen
IncreaseTargetLen ==
    /\ Change([localSong EXCEPT !.settings = localSong.settings + 1])
    /\ UNCHANGED keyed

\* updateLine(idx, text): line idx's onChange
updateLine ==
    \E idx \in 0..(Len(localSong.lines) - 1) :
      \E text \in Typed :
        /\ text # localSong.lines[idx + 1]
        /\ Change([localSong EXCEPT !.lines[idx + 1] = text])
        /\ keyed' = Event("Change", idx, 0, 0)

\* the autosave timer fires: updateSong(id, {title, artist, rawLyrics, lines,
\* settings}) of the local song the timer was set for
AutosaveFires ==
    /\ timeout # NoSong
    /\ songs' = updateSong(songs, id, SavedFields(timeout))
    /\ timeout' = NoSong
    /\ UNCHANGED <<splitter, currentLineIndex, called, performanceQueue, route,
                   localSong, activeLineIdx, isFirstRender, edits, lastEdit, keyed>>

SaveNext ==
    \/ OpenEditor
    \/ EditorBack
    \/ ChangeTitle
    \/ ChangeArtist
    \/ ChangeRawLyrics
    \/ DecreaseTargetLen
    \/ IncreaseTargetLen
    \/ updateLine
    \/ AutosaveFires
    \/ handleGoToPerform
    \/ KeyEscape

\* a timer that is set and not cleared fires
SaveSpec == Init /\ [][SaveNext]_vars /\ WF_vars(AutosaveFires)

-----------------------------------------------------------------------------
(* Properties *)

Done == pc = "done"

HasSentinel(s) == NUL \in Range(s)

NonWhitespace(s) == SelectSeq(s, LAMBDA c : ~IsSpace(c))

Count(s, c) == Cardinality({i \in 1..Len(s) : s[i] = c})

Pushes(kinds) == {i \in 1..Len(origin) : origin[i] \in kinds}

\* C1: when splitLyrics has returned for a raw text without U+0000, the
\* non-whitespace characters of the returned lines, concatenated in output order,
\* are the non-whitespace characters of raw in source order.
NonLoss ==
    (Done /\ ~HasSentinel(raw)) =>
        NonWhitespace(Concat(result)) = NonWhitespace(raw)

\* a return with a masked period, a hard cut and a packed line behind it
NonLossWitness ==
    /\ Done /\ ~HasSentinel(raw)
    /\ HasSentinel(Concat(lines))
    /\ Pushes({"hardcut"}) # {}
    /\ Pushes({"packed", "atom"}) # {}
    /\ Len(result) >= 3

\* C2: at every step no element of the accumulator, whichever push produced it,
\* is empty or made of whitespace only, and neither is a returned line.
NoBlankLine ==
    /\ \A i \in 1..Len(lines) : NonWhitespace(lines[i]) # <<>>
    /\ \A i \in 1..Len(result) : NonWhitespace(result[i]) # <<>>

\* a return whose lines come from the terminal push, the head push and the
\* flush of the running line
NoBlankLineWitness ==
    /\ Done
    /\ Pushes({"terminal"}) # {}
    /\ Pushes({"space", "hardcut"}) # {}
    /\ Pushes({"packed", "atom"}) # {}

\* the work a call of processSegment on text has ahead of it, and the work of an
\* atom or a paragraph still to be visited
SegmentWork(text) == 5 * Len(text) + 1

RECURSIVE PendingWork(_)
PendingWork(ss) ==
    IF ss = <<>> THEN 0 ELSE 5 * Len(Head(ss)) + 2 + PendingWork(Tail(ss))

FrameWork(f) ==
    IF f.kind = "segment" THEN SegmentWork(f.text) ELSE 1 + PendingWork(f.atoms)

RECURSIVE StackWork(_)
StackWork(st) ==
    IF st = <<>> THEN 0 ELSE FrameWork(Head(st)) + StackWork(Tail(st))

\* a natural number that bounds the steps a call has left
Variant ==
    CASE pc = "start" -> 7 * Len(raw) + 5
      [] pc = "split" -> 1 + PendingWork(paragraphs) + StackWork(stack)
      [] OTHER -> 0

\* C3: every call of splitLyrics returns: each of its steps, the calls that
\* processSegment and trySplitAndReflow make of each other included, lowers a
\* natural number, which is 0 only once the call has returned.
Terminates ==
    /\ [](Variant \in Nat /\ (Variant = 0 <=> pc \in {"idle", "done"}))
    /\ [][pc # "idle" => Variant' < Variant]_vars

\* a call of processSegment made by trySplitAndReflow for a huge atom that has
\* itself to be split
TerminatesWitness ==
    /\ Len(stack) >= 2
    /\ Top.kind = "segment"
    /\ stack[Len(stack) - 1].kind = "reflow"
    /\ ~WithinMaxLen(Len(Top.text), targetLen)

\* C4: a line that is neither the head of a hard cut nor a single atom is at
\* most max(limit*1.5, limit+5) long.
SoftBound ==
    /\ \A i \in Pushes({"terminal", "space", "packed"}) :
           WithinMaxLen(Len(lines[i]), targetLen)
    /\ Done => \A i \in Pushes({"terminal", "space", "packed"}) :
                   WithinMaxLen(Len(result[i]), targetLen)

\* a returned line packed from several atoms that is longer than the target
SoftBoundWitness ==
    /\ Done
    /\ \E i \in Pushes({"packed"}) : Len(result[i]) > targetLen

\* the paragraphs of s (split at \n) that hold a character other than whitespace;
\* open says whether the paragraph being read holds one already
RECURSIVE NonBlankParagraphs(_, _)
NonBlankParagraphs(s, open) ==
    IF s = <<>> THEN 0
    ELSE IF Head(s) = "\n" THEN NonBlankParagraphs(Tail(s), FALSE)
    ELSE IF ~IsSpace(Head(s)) /\ ~open THEN 1 + NonBlankParagraphs(Tail(s), TRUE)
    ELSE NonBlankParagraphs(Tail(s), open)

\* C5: splitLyrics returns no line for the empty text and for a text whose
\* paragraphs are all blank; a blank paragraph adds no line: when every
\* paragraph is within the tolerance there are as many lines as non-blank
\* paragraphs.
EmptyInput ==
    Done =>
        /\ (\A i \in 1..Len(raw) : IsSpace(raw[i])) => result = <<>>
        /\ WithinMaxLen(Len(raw), targetLen) =>
               Len(result) = NonBlankParagraphs(raw, FALSE)

\* a return for a text of blank paragraphs only
EmptyInputWitness ==
    /\ Done
    /\ Len(raw) >= 3
    /\ \A i \in 1..Len(raw) : IsSpace(raw[i])
    /\ \E i \in 1..Len(raw) : raw[i] = "\n"
    /\ result = <<>>

\* line holds token as a contiguous part
Contains(line, token) == IndexOfText(line, token, 0) # -1

HyphenWord == SubSeq(HyphenText, 1, 13)

\* C6 as claimed: for the hyphen example and every target length from 5 to the
\* length of the text, one returned line holds "semi-detached" whole.
HyphenWordIntact ==
    (Done /\ raw = HyphenText /\ targetLen \in 5..Len(HyphenText)) =>
        \E i \in 1..Len(result) : Contains(result[i], HyphenWord)

\* C6, amended: for the hyphen example and every target length from 10 to the
\* length of the text, one returned line holds "semi-detached" whole; from 5 to
\* 9 the hard cut at limit falls inside the word.
HyphenWordIntactFrom10 ==
    (Done /\ raw = HyphenText) =>
        /\ targetLen \in 10..Len(HyphenText) =>
               \E i \in 1..Len(result) : Contains(result[i], HyphenWord)
        /\ targetLen \in 5..9 =>
               /\ result[1] = SubSeq(HyphenText, 1, targetLen)
               /\ \A i \in 1..Len(result) : ~Contains(result[i], HyphenWord)

\* the hyphen example split at the smallest target length that keeps the word
HyphenWordWitness ==
    /\ Done /\ raw = HyphenText /\ targetLen = 10
    /\ Len(result) = 3
    /\ result[1] = HyphenWord

\* C7 as claimed: for a raw text without U+0000, the forward scan of
\* highlightSegments finds every line splitLyrics returned, each at or after the
\* end of the line found before it.
LinesLocatable ==
    (Done /\ ~HasSentinel(raw)) =>
        \A k \in 1..Len(result) : HighlightStart(raw, result, 1, k, 0) # -1

\* C8: the abbreviation example with target length 100 comes back as one line
\* equal to the text; for a raw text without U+0000 no returned line holds
\* U+0000, and a returned line is its accumulator line with a period in the
\* place of every U+0000, so that the periods of raw are all returned.
AbbreviationsPreserved ==
    (Done /\ ~HasSentinel(raw)) =>
        /\ (raw = AbbreviationText /\ targetLen = 100) => result = <<AbbreviationText>>
        /\ Len(result) = Len(lines)
        /\ \A i \in 1..Len(result) :
               /\ ~HasSentinel(result[i])
               /\ Len(result[i]) = Len(lines[i])
               /\ \A j \in 1..Len(lines[i]) :
                      result[i][j] = IF lines[i][j] = NUL THEN "." ELSE lines[i][j]
        /\ Count(Concat(result), ".") = Count(raw, ".")

\* the abbreviation example returned, both abbreviations masked in the accumulator
AbbreviationsWitness ==
    /\ Done /\ raw = AbbreviationText /\ targetLen = 100
    /\ Len(lines) = 1
    /\ Count(lines[1], NUL) = 2
    /\ result = <<AbbreviationText>>

FirstSentence == SubSeq(SentenceText, 1, 12)

SecondSentence == SubSeq(SentenceText, 14, Len(SentenceText))

\* C9: for the sentence example with target length 20 the first returned line
\* is "Hello world." and the lines after it are, in order, the second sentence
\* cut at spaces, each at most 30 long.
SentenceBoundarySplit ==
    (Done /\ raw = SentenceText /\ targetLen = 20) =>
        /\ Len(result) >= 2
        /\ result[1] = FirstSentence
        /\ \A i \in 2..Len(result) :
               /\ Len(result[i]) <= 30
               /\ Contains(SecondSentence, result[i])
        /\ NonWhitespace(Concat(Tail(result))) = NonWhitespace(SecondSentence)

\* the sentence example returned in four lines
SentenceWitness ==
    /\ Done /\ raw = SentenceText /\ targetLen = 20
    /\ Len(result) = 4
    /\ origin[1] = "atom"

IsPlainWord(s) == s # <<>> /\ \A i \in 1..Len(s) : IsWordChar(s[i])

\* C10: a raw text that is one word of letters and digits, longer than
\* max(limit*1.5, limit+5), comes back as two or more lines, none longer than
\* that, all but the last limit long, whose concatenation is the word.
HardCut ==
    (Done /\ IsPlainWord(raw) /\ ~WithinMaxLen(Len(raw), targetLen)) =>
        /\ Len(result) >= 2
        /\ \A i \in 1..Len(result) : WithinMaxLen(Len(result[i]), targetLen)
        /\ \A i \in 1..(Len(result) - 1) : Len(result[i]) = targetLen
        /\ Concat(result) = raw

\* the 50-character word with target length 10 returned in five lines
HardCutWitness ==
    /\ Done /\ raw = LongWordText /\ targetLen = 10
    /\ Len(result) = 5
    /\ \A i \in 1..4 : origin[i] = "hardcut"

-----------------------------------------------------------------------------
(* Properties of repeated calls *)

\* C11: a call of splitLyrics returns what the caller's first call returned for
\* the same raw text and target length, whichever calls were made in between
\* and whatever they left behind: each call starts from an empty accumulator and
\* an empty stack.
Deterministic ==
    /\ (Done /\ kept # NoCall /\ raw = kept.raw /\ targetLen = kept.targetLen) =>
           result = kept.result
    /\ (pc = "split" /\ stack = <<>> /\ Len(paragraphs) = Len(SplitParagraphs(Protect(raw)))) =>
           lines = <<>>

\* a later call that repeats the caller's first call and returns its lines
DeterministicWitness ==
    /\ Done /\ kept # NoCall
    /\ raw = kept.raw /\ targetLen = kept.targetLen
    /\ Len(result) >= 3
    /\ result = kept.result

\* the positions of the line feeds of s
LineFeeds(s) == {i \in 1..Len(s) : s[i] = "\n"}

\* C12: when splitLyrics has returned for a raw text with a line break (\n or
\* \r\n), the lines returned are the lines splitLyrics returns for the text
\* before the break followed by the lines it returns for the text after it; so
\* every returned line comes from one paragraph.
ParagraphsNeverMerge ==
    Done =>
        \A i \in LineFeeds(raw) :
            LET after == splitLyrics(SubSeq(raw, i + 1, Len(raw)), targetLen)
            IN  /\ result = splitLyrics(SubSeq(raw, 1, i - 1), targetLen) \o after
                /\ (i > 1 /\ raw[i - 1] = "\r") =>
                       result = splitLyrics(SubSeq(raw, 1, i - 2), targetLen) \o after

\* a return for two paragraphs with \r\n between them that are both split into
\* several lines
ParagraphsWitness ==
    /\ Done
    /\ Cardinality(LineFeeds(raw)) = 1
    /\ \E i \in LineFeeds(raw) :
           /\ i > 1 /\ raw[i - 1] = "\r"
           /\ Len(splitLyrics(SubSeq(raw, 1, i - 1), targetLen)) >= 2
           /\ Len(splitLyrics(SubSeq(raw, i + 1, Len(raw)), targetLen)) >= 2

-----------------------------------------------------------------------------
(* Properties of the whitespace fallback *)

\* the non-empty trimmed atoms the sentence and the clause punctuation cut text into
SentenceAtoms(text) == BuildAtoms(RegexSplit(text, "sentence", 1, 1))

ClauseAtoms(text) == BuildAtoms(RegexSplit(text, "clause", 1, 1))

\* the call on top of the stack is a call of processSegment whose segment is
\* longer than maxLen
Oversized ==
    /\ stack # <<>>
    /\ Top.kind = "segment"
    /\ ~WithinMaxLen(Len(Top.text), targetLen)

\* processSegment is about to run Strategy 3 on the segment on top of the stack
InFallback ==
    /\ Oversized
    /\ Len(SentenceAtoms(Top.text)) < 2
    /\ Len(ClauseAtoms(Top.text)) < 2

\* the 0-based index of the last space of text at or before limit, -1 if none
LastSpace(text, limit) == LastIndexOf(text, " ", limit)

\* text has a space after limit and at or before limit*1.4
HasLateSpace(text, limit) ==
    \E i \in (limit + 1)..(Len(text) - 1) : text[i + 1] = " " /\ 5 * i <= 7 * limit

\* the last space at or before limit lies before limit*0.4, and no space after
\* limit is at or before limit*1.4
EarlyCandidateOnly(text, limit) ==
    /\ LastSpace(text, limit) # -1
    /\ 5 * LastSpace(text, limit) < 2 * limit
    /\ ~HasLateSpace(text, limit)

\* C13 as claimed: in that case findBestSplitIndex reports -1 and processSegment
\* cuts at limit: the head pushed is the first limit characters of the segment.
EarlyCandidateRejected ==
    [][(InFallback /\ EarlyCandidateOnly(Top.text, targetLen)) =>
          /\ findBestSplitIndex(Top.text, targetLen) = -1
          /\ lines' = Append(lines, Trim(SubstringTo(Top.text, targetLen)))]_vars

\* C13, amended: in that case findBestSplitIndex returns the early space, and
\* processSegment cuts there: the head pushed is the text before that space and
\* the tail, the text after it, goes to the next call of processSegment.
EarlyCandidateKept ==
    [][(InFallback /\ EarlyCandidateOnly(Top.text, targetLen)) =>
          LET index == LastSpace(Top.text, targetLen)
          IN  /\ findBestSplitIndex(Top.text, targetLen) = index
              /\ lines' = Append(lines, Trim(SubSeq(Top.text, 1, index)))
              /\ origin' = Append(origin, "space")
              /\ stack' = Append(Pop, SegmentFrame(
                               Trim(SubSeq(Top.text, index + 2, Len(Top.text))),
                               Top.text))]_vars

\* the fallback has cut a segment at an early space: the head is shorter than
\* limit*0.4 and the call on the tail is in progress
EarlyCandidateWitness ==
    /\ stack # <<>>
    /\ Top.kind = "segment"
    /\ Len(Top.caller) > Len(Top.text)
    /\ EarlyCandidateOnly(Top.caller, targetLen)
    /\ lines # <<>>
    /\ origin[Len(origin)] = "space"
    /\ lines[Len(lines)] = Trim(SubSeq(Top.caller, 1, LastSpace(Top.caller, targetLen)))
    /\ 5 * Len(lines[Len(lines)]) < 2 * targetLen
    /\ Top.text = Trim(SubSeq(Top.caller, LastSpace(Top.caller, targetLen) + 2,
                              Len(Top.caller)))

-----------------------------------------------------------------------------
(* Properties of the recursion *)

\* C14: every call of processSegment in progress that was made by processSegment
\* (on the tail) or by trySplitAndReflow (on a huge atom) has a segment that is
\* not empty and is shorter than the segment of the call that made it; the
\* calls splitLyrics makes have a non-empty segment too.
StrictShrinkage ==
    \A i \in 1..Len(stack) :
        stack[i].kind = "segment" =>
            /\ stack[i].text # <<>>
            /\ stack[i].caller # <<>> => Len(stack[i].text) < Len(stack[i].caller)

\* a call on the tail of a huge atom: the atom is shorter than the segment it
\* was split from, and the tail shorter than the atom
StrictShrinkageWitness ==
    /\ Len(stack) >= 2
    /\ stack[Len(stack) - 1].kind = "reflow"
    /\ Top.kind = "segment"
    /\ Top.caller # <<>>
    /\ Len(Top.text) < Len(Top.caller)
    /\ Len(Top.caller) < Len(stack[Len(stack) - 1].text)
    /\ origin # <<>>
    /\ origin[Len(origin)] \in {"space", "hardcut"}

-----------------------------------------------------------------------------
(* Properties of the cascade and of the packer *)

\* the step installs the packer over atoms for the segment on top, and pushes
\* nothing
StartsPacking(atoms) ==
    /\ stack' = Append(Pop, ReflowFrame(Top.text, atoms, <<>>, 0))
    /\ lines' = lines

\* the step is the whitespace fallback on the segment on top: one head pushed,
\* cut at a space or at limit, and at most a call on the tail in its place
FallsBack ==
    /\ Len(lines') = Len(lines) + 1
    /\ SubSeq(lines', 1, Len(lines)) = lines
    /\ origin'[Len(origin')] \in {"space", "hardcut"}
    /\ \/ stack' = Pop
       \/ /\ Len(stack') = Len(stack)
          /\ stack'[Len(stack')].kind = "segment"
          /\ stack'[Len(stack')].caller = Top.text

\* the segment of a raw text that is one paragraph
OnlySegment == Trim(Protect(raw))

\* C15: the step taken for a segment longer than maxLen hands the sentence atoms
\* to the packer when there are two or more of them; the clause atoms only when
\* there are not, and there are two or more of those; and is the whitespace
\* fallback only when neither holds.  For a raw text of one paragraph the lines
\* of the whole call are then the packer's lines for the atoms of the first
\* strategy that splits it.
OrderedCascade ==
    /\ [][Oversized =>
             IF Len(SentenceAtoms(Top.text)) >= 2
             THEN StartsPacking(SentenceAtoms(Top.text))
             ELSE IF Len(ClauseAtoms(Top.text)) >= 2
                  THEN StartsPacking(ClauseAtoms(Top.text))
                  ELSE FallsBack]_vars
    /\ []((/\ Done
           /\ LineFeeds(raw) = {}
           /\ ~WithinMaxLen(Len(OnlySegment), targetLen)) =>
              /\ Len(SentenceAtoms(OnlySegment)) >= 2 =>
                     lines = reflow(SentenceAtoms(OnlySegment), <<>>, targetLen)
              /\ (Len(SentenceAtoms(OnlySegment)) < 2
                      /\ Len(ClauseAtoms(OnlySegment)) >= 2) =>
                     lines = reflow(ClauseAtoms(OnlySegment), <<>>, targetLen))

\* the packer has just been given the sentence atoms of a segment that the
\* clause punctuation would have split as well, into other atoms
OrderedCascadeWitness ==
    /\ stack # <<>>
    /\ Top.kind = "reflow"
    /\ Top.currentLine = <<>> /\ Top.packed = 0
    /\ Top.atoms = SentenceAtoms(Top.text)
    /\ Len(Top.atoms) >= 2
    /\ Len(ClauseAtoms(Top.text)) >= 2
    /\ ClauseAtoms(Top.text) # SentenceAtoms(Top.text)

\* the pieces of text between the delimiters of a strategy, each with the
\* delimiter that ends it, that hold a character other than whitespace
Pieces(text, strategy) ==
    LET parts == RegexSplit(text, strategy, 1, 1)
    IN  {k \in 1..Len(parts) :
            /\ k % 2 = 1
            /\ NonWhitespace(parts[k] \o (IF k < Len(parts) THEN parts[k + 1] ELSE <<>>))
                   # <<>>}

\* a delimiter of the strategy matches in text
Matches(text, strategy) == Len(RegexSplit(text, strategy, 1, 1)) >= 3

\* C16: when the sentence punctuation leaves fewer than two non-empty pieces of
\* the segment on top, the step taken starts the next strategy on the
\* accumulator as it is: the clause packer with nothing pushed, or, when the
\* clause punctuation leaves fewer than two pieces as well, the whitespace cut,
\* whose head is the one line added.
IneffectiveSplitKeepsLines ==
    [][(Oversized /\ Cardinality(Pieces(Top.text, "sentence")) < 2) =>
          IF Cardinality(Pieces(Top.text, "clause")) >= 2
          THEN /\ lines' = lines
               /\ origin' = origin
               /\ Len(stack') = Len(stack)
               /\ stack'[Len(stack')].kind = "reflow"
               /\ stack'[Len(stack')].currentLine = <<>>
               /\ Len(stack'[Len(stack')].atoms) = Cardinality(Pieces(Top.text, "clause"))
          ELSE /\ lines' = Append(lines,
                              Trim(SubstringTo(Top.text, SplitIndex(Top.text, targetLen))))
               /\ origin'[Len(origin')] \in {"space", "hardcut"}]_vars

\* the whitespace cut has been made on a segment in which the sentence
\* punctuation matched, at its end only, and the clause punctuation did not
\* match: the accumulator holds the head as its one line
IneffectiveSplitWitness ==
    /\ Len(stack) = 1
    /\ Top.kind = "segment"
    /\ Top.caller # <<>>
    /\ Matches(Top.caller, "sentence")
    /\ ~Matches(Top.caller, "clause")
    /\ Cardinality(Pieces(Top.caller, "sentence")) = 1
    /\ Len(lines) = 1
    /\ origin[1] \in {"space", "hardcut"}

\* the loop of trySplitAndReflow is about to take the next atom
Packing == stack # <<>> /\ Top.kind = "reflow" /\ Top.atoms # <<>>

\* the running line with the atom joined to it by one space is at most
\* limit*1.3 long
JoinFits(cur, atom, limit) == 10 * (Len(cur) + 1 + Len(atom)) <= 13 * limit

\* the running line cur, if there is one, is the one line the step pushes
Flushes(cur) ==
    /\ lines' = (IF cur # <<>> THEN Append(lines, cur) ELSE lines)
    /\ Len(origin') = Len(lines')
    /\ cur # <<>> => origin'[Len(origin')] \in {"packed", "atom"}

\* the loop of the packer in the next state: the call at the position of the one
\* on top now
Loop == stack'[Len(stack)]

\* C17: the packer joins an atom to the running line, with one space, exactly
\* when that line is not empty and the joined line is at most limit*1.3 long;
\* otherwise it pushes the running line and the atom starts the next one (or,
\* when huge, goes to processSegment); after the last atom it pushes the running
\* line.  So a line made of two or more atoms is at most limit*1.3 long.
GreedyPacking ==
    /\ [][Packing =>
             LET cur  == Top.currentLine
                 atom == Head(Top.atoms)
             IN  /\ Loop.kind = "reflow"
                 /\ Loop.atoms = Tail(Top.atoms)
                 /\ IF cur # <<>> /\ JoinFits(cur, atom, targetLen)
                    THEN /\ Loop.currentLine = cur \o <<" ">> \o atom
                         /\ Loop.packed = Top.packed + 1
                         /\ lines' = lines
                    ELSE /\ Flushes(cur)
                         /\ Loop.currentLine \in {atom, <<>>}
                         /\ Loop.currentLine = atom <=> 2 * Len(atom) <= 3 * targetLen
                         /\ Loop.currentLine = atom => Loop.packed = 1]_vars
    /\ [][(stack # <<>> /\ Top.kind = "reflow" /\ Top.atoms = <<>>) =>
             Flushes(Top.currentLine) /\ stack' = Pop]_vars
    /\ [](/\ \A i \in Pushes({"packed"}) : 10 * Len(lines[i]) <= 13 * targetLen
          /\ (stack # <<>> /\ Top.kind = "reflow" /\ Top.packed >= 2) =>
                 10 * Len(Top.currentLine) <= 13 * targetLen)

\* a line of two atoms has been pushed because the third did not fit, and the
\* third is the running line
GreedyPackingWitness ==
    /\ stack # <<>>
    /\ Top.kind = "reflow"
    /\ Top.currentLine # <<>>
    /\ Top.packed = 1
    /\ lines # <<>>
    /\ origin[Len(origin)] = "packed"
    /\ ~JoinFits(lines[Len(lines)], Top.currentLine, targetLen)

\* the lines the calls in progress have still to append, the call on top first
RECURSIVE Remaining(_)
Remaining(st) ==
    IF st = <<>> THEN <<>>
    ELSE LET f == st[Len(st)]
         IN  (IF f.kind = "segment"
              THEN processSegment(f.text, targetLen)
              ELSE reflow(f.atoms, f.currentLine, targetLen))
                 \o Remaining(SubSeq(st, 1, Len(st) - 1))

\* s is the beginning of t
IsPrefix(s, t) == Len(s) <= Len(t) /\ SubSeq(t, 1, Len(s)) = s

\* the packer on top of the stack has no running line: it starts, or the call
\* of processSegment it made on a huge atom has returned
Resumed ==
    /\ pc = "split"
    /\ stack # <<>>
    /\ Top.kind = "reflow"
    /\ Top.currentLine = <<>>

\* C18: when the packer meets an atom longer than limit*1.5 it pushes the
\* running line, if any, calls processSegment on the atom and goes on with an
\* empty running line; every step of a call only appends to the accumulator; and
\* whenever the packer goes on, the accumulator followed by the lines the calls
\* in progress have still to append, the innermost first, is the accumulator at
\* the return.
\* So the running line comes before the lines of the huge atom, these before
\* the lines of the atoms after it, and none of those is joined to them.
HugeAtomInOrder ==
    /\ [][(Packing /\ 2 * Len(Head(Top.atoms)) > 3 * targetLen) =>
             /\ Flushes(Top.currentLine)
             /\ stack' = Append(Pop, ReflowFrame(Top.text, Tail(Top.atoms), <<>>, 0))
                             \o <<SegmentFrame(Head(Top.atoms), Top.text)>>]_vars
    /\ [][(pc = "split" /\ pc' = "split") => IsPrefix(lines, lines')]_vars
    /\ [](Resumed =>
             lines \o Remaining(stack) \o paragraphLines(paragraphs, targetLen)
                 = paragraphLines(SplitParagraphs(Protect(raw)), targetLen))
    /\ [](Done => lines = paragraphLines(SplitParagraphs(Protect(raw)), targetLen))

\* the call of processSegment on a huge atom has returned: its lines follow the
\* running line pushed before it, and the packer goes on to the next atom with
\* an empty running line
HugeAtomWitness ==
    /\ stack # <<>>
    /\ Top.kind = "reflow"
    /\ Top.currentLine = <<>>
    /\ Top.atoms # <<>>
    /\ lines # <<>>
    /\ JoinFits(lines[Len(lines)], Head(Top.atoms), targetLen)
    /\ \E i \in 1..(Len(origin) - 2) :
           /\ origin[i] \in {"atom", "packed"}
           /\ \A j \in (i + 1)..Len(origin) : origin[j] \in {"space", "hardcut", "terminal"}

-----------------------------------------------------------------------------
(* Properties of the strategies' delimiters *)

\* position i of s holds a period that follows one of the abbreviations, in
\* any letter case, that starts at a word boundary
AfterAbbreviation(s, i) ==
    /\ i \in 1..Len(s)
    /\ s[i] = "."
    /\ \E a \in 1..Len(Abbreviations) :
           LET w     == Abbreviations[a]
               start == i - Len(w)
           IN  /\ start >= 1
               /\ WordBoundary(s, start)
               /\ \A k \in 1..Len(w) : ToUpper(s[start + k - 1]) = ToUpper(w[k])

\* position i of s holds a period that follows a capital letter standing at a
\* word boundary
AfterInitial(s, i) ==
    /\ i \in 2..Len(s)
    /\ s[i] = "."
    /\ IsUpper(s[i - 1])
    /\ WordBoundary(s, i - 1)

TitlePeriod(s, i) == AfterAbbreviation(s, i) \/ AfterInitial(s, i)

\* position i of s is in a run of sentence punctuation that is followed by
\* whitespace or by the end of s
SentenceEnd(s, i) ==
    /\ s[i] \in SentencePunct
    /\ LookaheadSpaceOrEnd(s, i + RunLen(s, i, SentencePunct))

\* the delimiters text.split finds in text: the parts at the even positions
Delimiters(text, strategy) ==
    LET parts == RegexSplit(text, strategy, 1, 1)
    IN  {parts[k] : k \in {j \in 1..Len(parts) : j % 2 = 0}}

\* C19: the period after an abbreviation, in any letter case, or after a
\* capital letter, each at a word boundary, is masked before the text is split;
\* a masked period is in no delimiter of the sentence strategy; and the segment
\* of a one-paragraph text longer than maxLen whose sentence punctuation before
\* whitespace or the end is made of such periods only does not go to the
\* sentence packer: it is split by the clause strategy or by the fallback.
MaskedPeriodsNoBoundary ==
    /\ [](pc = "start" =>
             /\ Len(Protect(raw)) = Len(raw)
             /\ \A i \in 1..Len(raw) : TitlePeriod(raw, i) => Protect(raw)[i] = NUL)
    /\ [](Oversized =>
             \A d \in Delimiters(Top.text, "sentence") : ~HasSentinel(d))
    /\ [][(/\ Oversized
            /\ Len(stack) = 1
            /\ Top.caller = <<>>
            /\ LineFeeds(raw) = {}
            /\ Top.text = OnlySegment
            /\ \A i \in 1..Len(raw) : SentenceEnd(raw, i) => TitlePeriod(raw, i)) =>
               /\ Len(SentenceAtoms(Top.text)) < 2
               /\ IF Len(ClauseAtoms(Top.text)) >= 2
                  THEN StartsPacking(ClauseAtoms(Top.text))
                  ELSE FallsBack]_vars

\* a text with a lower-case abbreviation before its words has been split: the
\* period is masked in the accumulator, and no line comes from a packer
MaskedPeriodsWitness ==
    /\ Done
    /\ raw \in TitleTexts
    /\ ~IsUpper(raw[1])
    /\ TitlePeriod(raw, 3) \/ TitlePeriod(raw, 4) \/ TitlePeriod(raw, 5)
    /\ HasSentinel(Concat(lines))
    /\ Pushes({"packed", "atom"}) = {}

\* the delimiters text.split finds in s from position q on, each as its first
\* position and its length
RECURSIVE Cuts(_, _, _)
Cuts(s, strategy, q) ==
    LET hits == {k \in q..Len(s) : MatchLen(s, k, strategy) > 0}
    IN  IF hits = {} THEN {}
        ELSE LET k == CHOOSE h \in hits : \A j \in hits : h <= j
                 n == MatchLen(s, k, strategy)
             IN  {<<k, n>>} \cup Cuts(s, strategy, k + n)

\* the positions of s that hold a hyphen
HyphenPositions(s) == {k \in 1..Len(s) : s[k] \in Hyphens}

\* the hyphen at position k of s is in a run of hyphens with whitespace directly
\* before the run, whitespace directly after it, and after that whitespace
\* more whitespace or the end of s
SpacedRun(s, k) ==
    \E a \in 1..k, b \in k..Len(s) :
        /\ \A j \in a..b : s[j] \in Hyphens
        /\ a > 1 /\ IsSpace(s[a - 1])
        /\ b < Len(s) /\ IsSpace(s[b + 1])
        /\ b + 2 > Len(s) \/ IsSpace(s[b + 2])

\* C20: in every segment longer than maxLen, a delimiter of the clause strategy
\* that holds a hyphen is one whitespace character, a run of hyphens and one
\* whitespace character, followed by whitespace or the end; so a hyphen with a
\* character other than whitespace and hyphens next to it is in no delimiter.
\* The hyphen example with runs comes back with "semi-detached" whole and cut
\* after its run of hyphens only.
HyphensNeedSpaces ==
    /\ Oversized =>
           /\ \A c \in Cuts(Top.text, "clause", 1) :
                  LET q == c[1]
                      n == c[2]
                  IN  (\E k \in q..(q + n - 1) : Top.text[k] \in Hyphens) =>
                          /\ n >= 3
                          /\ IsSpace(Top.text[q])
                          /\ IsSpace(Top.text[q + n - 1])
                          /\ \A k \in (q + 1)..(q + n - 2) : Top.text[k] \in Hyphens
                          /\ q + n > Len(Top.text) \/ IsSpace(Top.text[q + n])
           /\ \A k \in HyphenPositions(Top.text) :
                  (\E c \in Cuts(Top.text, "clause", 1) : k \in c[1]..(c[1] + c[2] - 1))
                      <=> SpacedRun(Top.text, k)
    /\ (Done /\ raw = HyphenRunText /\ targetLen = 10) =>
           /\ Len(result) = 5
           /\ result[1] = HyphenWord
           /\ result[2] = SubSeq(HyphenRunText, 15, 22)
           /\ result[4] = SubSeq(HyphenRunText, 34, 39)

\* the clause packer has been given the two atoms of the hyphen example with
\* runs: the hyphen inside the word and the hyphen between single spaces are
\* inside the atoms
HyphensWitness ==
    /\ raw = HyphenRunText
    /\ stack # <<>>
    /\ Top.kind = "reflow"
    /\ Top.text = HyphenRunText
    /\ Top.atoms = ClauseAtoms(HyphenRunText)
    /\ Len(Top.atoms) = 2
    /\ Contains(Top.atoms[1], HyphenWord)
    /\ Contains(Top.atoms[2], SubSeq(HyphenRunText, 34, 44))

-----------------------------------------------------------------------------
(* Properties of the terminal case and of the cut *)

\* twice max(limit*1.5, limit+5)
TwiceMaxLen(limit) == IF 3 * limit >= 2 * limit + 10 THEN 3 * limit ELSE 2 * limit + 10

\* the call on top of the stack is a call of processSegment whose segment is at
\* most maxLen long
AtTerminal ==
    /\ stack # <<>>
    /\ Top.kind = "segment"
    /\ 2 * Len(Top.text) <= TwiceMaxLen(targetLen)

\* s holds a sentence or clause punctuation mark followed by a space
HasBoundary(s) ==
    \E i \in 1..(Len(s) - 1) : s[i] \in SentencePunct \cup ClausePunct /\ s[i + 1] = " "

\* C21: a call of processSegment on a segment at most max(limit*1.5, limit+5)
\* long appends the segment as one line, appends nothing else and returns; a
\* raw text of one paragraph whose trimmed text is that short comes back as
\* that text in one line.
TerminalCase ==
    /\ [][AtTerminal =>
              /\ lines' = Append(lines, Top.text)
              /\ stack' = SubSeq(stack, 1, Len(stack) - 1)]_vars
    /\ [](( /\ Done
            /\ LineFeeds(raw) = {}
            /\ NonWhitespace(raw) # <<>>
            /\ ~HasSentinel(raw)
            /\ 2 * Len(Trim(raw)) <= TwiceMaxLen(targetLen) )
              => result = <<Trim(raw)>>)

\* a text with a sentence or clause boundary inside, longer than the target
\* length, returned as one line
TerminalCaseWitness ==
    /\ Done
    /\ Len(raw) > targetLen
    /\ HasBoundary(raw)
    /\ result = <<raw>>
    /\ origin = <<"terminal">>

\* the 0-based index of the last whitespace character of text at or before
\* limit, -1 if there is none
LastWhitespace(text, limit) ==
    LET hits == {i \in 0..(Len(text) - 1) : i <= limit /\ IsSpace(text[i + 1])}
    IN  IF hits = {} THEN -1 ELSE CHOOSE i \in hits : \A j \in hits : i >= j

\* the step from a call of processSegment cuts its segment at 0-based index i:
\* the trimmed text before i becomes a line and the trimmed text from i on the
\* segment of the next call
CutsAt(i) ==
    /\ lines' = Append(lines, Trim(SubSeq(Top.text, 1, i)))
    /\ Len(stack') = Len(stack)
    /\ stack'[Len(stack)].kind = "segment"
    /\ stack'[Len(stack)].text = Trim(SubSeq(Top.text, i + 1, Len(Top.text)))

\* C22: when the whitespace fallback runs on a segment whose last whitespace
\* character at or before limit is at index i >= limit*0.4, the segment is cut
\* at i: the head is the trimmed text before i, at most limit long, and the
\* tail is what follows that whitespace.
PrimaryCandidate ==
    [][LET i == LastWhitespace(Top.text, targetLen)
       IN  (InFallback /\ i >= 0 /\ 5 * i >= 2 * targetLen) =>
               /\ CutsAt(i)
               /\ Len(lines'[Len(lines')]) <= targetLen]_vars

\* the 0-based index of the first whitespace character of text after limit,
\* -1 if there is none
FirstWhitespaceAfter(text, limit) ==
    LET hits == {i \in 0..(Len(text) - 1) : i > limit /\ IsSpace(text[i + 1])}
    IN  IF hits = {} THEN -1 ELSE CHOOSE i \in hits : \A j \in hits : i <= j

\* C23: when the whitespace fallback runs on a segment without whitespace at
\* or before limit, the segment is cut at the first whitespace after limit if
\* its index is at most limit*1.4, and otherwise at index limit, the head being
\* the first limit characters.
NoWhitespaceBeforeLimit ==
    [][LET j == FirstWhitespaceAfter(Top.text, targetLen)
       IN  (InFallback /\ LastWhitespace(Top.text, targetLen) = -1) =>
               IF j # -1 /\ 5 * j <= 7 * targetLen
               THEN CutsAt(j)
               ELSE /\ CutsAt(targetLen)
                    /\ lines'[Len(lines')] = SubSeq(Top.text, 1, targetLen)]_vars

\* the 0-based indices, at most limit*1.4, of the space characters of text
NearSpaces(text, limit) ==
    {i \in 0..(Len(text) - 1) : text[i + 1] = " " /\ 5 * i <= 7 * limit}

\* C26: when the whitespace fallback runs on a segment with a space character
\* at an index of at most limit*1.4, the segment is cut at the index of such a
\* space; the cut at index limit that is not at a space (a hard cut) is made
\* only for a segment without one.
MidWordOnlyIfUnavoidable ==
    [][InFallback =>
          /\ NearSpaces(Top.text, targetLen) # {} =>
                 /\ \E i \in NearSpaces(Top.text, targetLen) : CutsAt(i)
                 /\ origin'[Len(origin')] = "space"
          /\ origin'[Len(origin')] = "hardcut" =>
                 /\ NearSpaces(Top.text, targetLen) = {}
                 /\ CutsAt(targetLen)]_vars

\* processSegment has cut its caller's segment at a space before limit*0.4,
\* no other space being near enough, where a cut at limit would have been
\* between two characters of a word
MidWordWitness ==
    /\ stack # <<>>
    /\ Top.kind = "segment"
    /\ Len(Top.caller) > targetLen
    /\ lines # <<>>
    /\ origin[Len(origin)] = "space"
    /\ IsWordChar(Top.caller[targetLen])
    /\ IsWordChar(Top.caller[targetLen + 1])
    /\ Cardinality(NearSpaces(Top.caller, targetLen)) = 1
    /\ \E i \in NearSpaces(Top.caller, targetLen) :
           /\ 5 * i < 2 * targetLen
           /\ lines[Len(lines)] = SubSeq(Top.caller, 1, i)
           /\ Top.text = Trim(SubSeq(Top.caller, i + 1, Len(Top.caller)))

-----------------------------------------------------------------------------
(* Properties of the lines returned *)

\* C24: no line of the accumulator and no line returned is longer than
\* max(limit*1.5, limit+5), whichever step appended it.
HardBound ==
    /\ \A i \in 1..Len(lines) : 2 * Len(lines[i]) <= TwiceMaxLen(targetLen)
    /\ Done => \A i \in 1..Len(result) : 2 * Len(result[i]) <= TwiceMaxLen(targetLen)

\* lines returned from a hard cut, from a cut at a space and from the packer,
\* one of them longer than the target length
HardBoundWitness ==
    /\ Done
    /\ {"hardcut", "space", "packed"} \subseteq Range(origin)
    /\ \E i \in 1..Len(result) : Len(result[i]) > targetLen

\* lines.join("\n")
RECURSIVE JoinLines(_)
JoinLines(ls) ==
    IF ls = <<>> THEN <<>>
    ELSE IF Len(ls) = 1 THEN ls[1]
    ELSE ls[1] \o <<"\n">> \o JoinLines(Tail(ls))

\* C25: when splitLyrics has returned for a raw text without U+0000, splitLyrics
\* of the returned lines joined with "\n", with the same target length, is the
\* same sequence of lines.
ResplitFixedPoint ==
    (Done /\ ~HasSentinel(raw)) => splitLyrics(JoinLines(result), targetLen) = result

\* three or more lines returned, one longer than the target length and one
\* with a period, for a raw text that is not its lines joined
ResplitWitness ==
    /\ Done /\ ~HasSentinel(raw)
    /\ Len(result) >= 3
    /\ JoinLines(result) # raw
    /\ \E i \in 1..Len(result) : Len(result[i]) > targetLen
    /\ \E i \in 1..Len(result) : "." \in Range(result[i])
    /\ splitLyrics(JoinLines(result), targetLen) = result

-----------------------------------------------------------------------------
(* Properties of the runtime store *)

\* C27: after any calls of setCurrentLineIndex, nextLine and prevLine,
\* currentLineIndex is a natural number; right after nextLine(n) it is at most
\* n - 1 when n > 0 and it is 0 when n <= 0.
IndexInRange ==
    /\ currentLineIndex \in Nat
    /\ (called.op = "nextLine" /\ called.arg > 0) => currentLineIndex <= called.arg - 1
    /\ (called.op = "nextLine" /\ called.arg <= 0) => currentLineIndex = 0

\* nextLine(n) called with n > 0 while currentLineIndex was n or more
IndexInRangeWitness ==
    /\ called.op = "nextLine"
    /\ called.arg > 0
    /\ called.before >= called.arg
    /\ currentLineIndex = called.arg - 1

-----------------------------------------------------------------------------
(* Properties of the views *)

\* C28: whenever the Performance view shows a song of n >= 1 lines,
\* currentLineIndex is at most n - 1, whatever entries into performance
\* (Editor's Perform, PlaylistEditor's Play) and keys came before.
ShownLineExists ==
    (view = "perform" /\ song # NoSong /\ Len(song.lines) >= 1)
        => currentLineIndex <= Len(song.lines) - 1

\* the lines of the Editor around the latest event: before it and now
Before == keyed.lines

Now == localSong.lines

\* the state right after Enter in line idx with the cursor at c: that line is
\* replaced by its part before c and its part from c on, the other lines keep
\* their order, the line after idx is the active one
AfterEnter ==
    LET i == keyed.idx + 1
        c == keyed.selectionStart
    IN  /\ Len(Now) = Len(Before) + 1
        /\ activeLineIdx = keyed.idx + 1
        /\ Len(Now[i]) = c
        /\ Now[i] \o Now[i + 1] = Before[i]
        /\ \A k \in 1..(i - 1) : Now[k] = Before[k]
        /\ \A k \in (i + 1)..Len(Before) : Now[k + 1] = Before[k]
        /\ Concat(Now) = Concat(Before)

\* the state right after Backspace at the start of line idx > 0: the line is
\* joined onto the line before it, which is the active one
AfterBackspace ==
    LET i == keyed.idx + 1
    IN  /\ keyed.idx > 0
        /\ Len(Now) = Len(Before) - 1
        /\ activeLineIdx = keyed.idx - 1
        /\ Now[i - 1] = Before[i - 1] \o Before[i]
        /\ \A k \in 1..(i - 2) : Now[k] = Before[k]
        /\ \A k \in (i + 1)..Len(Before) : Now[k - 1] = Before[k]
        /\ Concat(Now) = Concat(Before)

Saved ==
    \/ lastEdit = NoSong
    \/ SavedFields(Find(songs, lastEdit.id)) = SavedFields(lastEdit)

\* C29: every change made to the song in the Editor is eventually written to
\* the library store, by the debounced autosave or by handleGoToPerform,
\* however edits, the timer and leaving the Editor interleave.
NoEditLost == [](~Saved => <>Saved)

=============================================================================
